---- MODULE Spec2Model ----
(***************************************************************************)
(* Token verification and user reconciliation pipeline of authx:           *)
(* ensureSupabaseUser (src/src/supabase/ensureUser.ts) reconciling         *)
(* verified claims against the Supabase admin user directory, driven       *)
(* either directly (as the integration tests do) or by the edge handler    *)
(* (src/src/next/edge/handler.ts); and the Authx component                *)
(* (src/src/ui/Authx.tsx), the phone and OTP form that obtains the ID      *)
(* token and posts it to the handler.                                      *)
(*                                                                         *)
(* A JavaScript string is a sequence of one-character strings, so that     *)
(* toLowerCase, includes and length are computed and never assumed.        *)
(* A JavaScript object is a function whose domain holds the keys that are  *)
(* present; a missing key reads as undefined.                              *)
(***************************************************************************)
EXTENDS Integers, Sequences, FiniteSets, Bags, TLC

VARIABLES
    users,      \* the store's account listing, in the store's listing order
    nextId,     \* the next identifier the store assigns
    pc,         \* pc[r]: where run r stands
    via,        \* via[r]: "direct" (ensureSupabaseUser called) or "handler"
    req,        \* req[r]: the request a handler run received
    claims,     \* claims[r]: the claims passed to ensureSupabaseUser
    user,       \* user[r]: the local `user` of ensureSupabaseUser: <<>> is null
    calls,      \* calls[r]: the store calls run r has made, in order
    result,     \* result[r]: how ensureSupabaseUser ended
    response,   \* response[r]: the Response the handler returned: <<>> is none
    verification, \* verification[r]: how verifyFirebaseIdToken ended
    users0,     \* the listing the store started with (never changes)
    clients,    \* the store clients makeAdminClient has constructed, in order
    keySets,    \* the key sets createRemoteJWKSet has constructed
    used,       \* used[r]: the client and the key set run r worked with (0: none)
    \* The Authx component (src/src/ui/Authx.tsx): its React state, ...
    localPhone, \* useState: the text of the phone input
    step,       \* useState: "phone", "otp" or "done"
    sending,    \* useState: disables the inputs and buttons
    otp,        \* useState: the six OTP boxes
    error,      \* useState: the error line
    \* ... its refs and what it has scheduled or awaits.
    confirmationRef, \* the ConfirmationResult of the last successful send: <<>> is null
    didAutoSendRef,  \* whether the auto-send effect has armed its timer once
    timer,      \* the pending 100 ms timer of the auto-send effect: <<>> is none
    sends,      \* the handleSend calls in flight, each at one of its awaits
    verifies,   \* the handleVerify calls in flight, each at one of its awaits
    otpCredential \* whether the Web OTP effect has a credential request pending

authxVars == <<localPhone, step, sending, otp, error, confirmationRef,
               didAutoSendRef, timer, sends, verifies, otpCredential>>

handlerVars == <<users, nextId, pc, via, req, claims, user, calls, result, response,
                 verification, users0, clients, keySets, used>>

vars == <<handlerVars, authxVars>>

-----------------------------------------------------------------------------
(* Bounds.                                                                 *)

NumRuns == 2

Runs == 1..NumRuns

-----------------------------------------------------------------------------
(* JavaScript values.                                                      *)

\* The value of a missing key. No JavaScript string: every string here is a
\* sequence of one-character strings.
undefined == <<"undefined">>

\* JavaScript's null, as it appears in a JSON body.
null == <<"null">>

Min(S) == CHOOSE x \in S : \A y \in S : x <= y

\* o[k] in JavaScript: undefined when the key is missing.
Get(o, k) == IF k \in DOMAIN o THEN o[k] ELSE undefined

\* Truthiness of a value that is a string or undefined: `if (s)`, `!!s`.
Truthy(s) == s /= undefined /\ s /= <<>>

\* a ?? b
Nullish(a, b) == IF a /= undefined THEN a ELSE b

\* s || d  for a string-or-undefined s
OrElse(s, d) == IF Truthy(s) THEN s ELSE d

UpperToLower ==
    [c \in {"A","B","C","D","E","F","G","H","I","J","K","L","M",
            "N","O","P","Q","R","S","T","U","V","W","X","Y","Z"} |->
        CASE c = "A" -> "a" [] c = "B" -> "b" [] c = "C" -> "c" [] c = "D" -> "d"
          [] c = "E" -> "e" [] c = "F" -> "f" [] c = "G" -> "g" [] c = "H" -> "h"
          [] c = "I" -> "i" [] c = "J" -> "j" [] c = "K" -> "k" [] c = "L" -> "l"
          [] c = "M" -> "m" [] c = "N" -> "n" [] c = "O" -> "o" [] c = "P" -> "p"
          [] c = "Q" -> "q" [] c = "R" -> "r" [] c = "S" -> "s" [] c = "T" -> "t"
          [] c = "U" -> "u" [] c = "V" -> "v" [] c = "W" -> "w" [] c = "X" -> "x"
          [] c = "Y" -> "y" [] c = "Z" -> "z"]

\* String.prototype.toLowerCase on the ASCII letters.
toLowerCase(s) ==
    [i \in DOMAIN s |-> IF s[i] \in DOMAIN UpperToLower THEN UpperToLower[s[i]] ELSE s[i]]

\* Array.from(new Set(a)): the first occurrence of each element, in order.
RECURSIVE ArrayFromSet(_)
ArrayFromSet(a) ==
    IF a = <<>> THEN <<>>
    ELSE LET init == ArrayFromSet(SubSeq(a, 1, Len(a) - 1))
             last == a[Len(a)]
         IN IF \E i \in DOMAIN init : init[i] = last THEN init ELSE Append(init, last)

\* The keys of o whose value is not undefined: what reaches the store when an
\* object literal with undefined members is sent.
Defined(o) == [k \in {k \in DOMAIN o : o[k] /= undefined} |-> o[k]]

-----------------------------------------------------------------------------
(* The strings the model draws its inputs from.                            *)

u1 == <<"u", "1">>
u2 == <<"u", "2">>
phone1 == <<"+", "1">>
phone2 == <<"+", "2">>
emailLower == <<"a", "@", "b">>
emailUpper == <<"A", "@", "b">>

\* sub and user_id each range over absent, empty and non-empty.
Subs == {undefined, <<>>, u1}
UserIds == {undefined, <<>>, u2}
Phones == {undefined, <<>>, phone1, phone2}
Emails == {undefined, <<>>, emailLower, emailUpper}

\* FirebaseIdTokenPayload (src/src/core/types.ts): every member is optional.
Payload(s, i, p, e) ==
    Defined([sub |-> s, user_id |-> i, phone_number |-> p, email |-> e])

ClaimSets == {Payload(s, i, p, e) : s \in Subs, i \in UserIds, p \in Phones, e \in Emails}

-----------------------------------------------------------------------------
(* The store: the Supabase admin user directory behind                     *)
(* admin.auth.admin.{listUsers, createUser, updateUserById}.               *)

\* listUsers() without arguments returns the first page of the listing; the
\* admin API's default page size is 50 accounts.
DefaultPerPage == 50

\* listUsers(params): one page of the listing. params is the argument object
\* of the call: <<>> for no argument.
listUsers(listing, params) ==
    LET page == IF "page" \in DOMAIN params THEN params.page ELSE 1
        perPage == IF "perPage" \in DOMAIN params THEN params.perPage ELSE DefaultPerPage
        first == (page - 1) * perPage + 1
        last == IF page * perPage < Len(listing) THEN page * perPage ELSE Len(listing)
    IN SubSeq(listing, first, last)

\* The account createUser(attrs) stores: a fresh id, the phone and the email
\* that were sent, and the two metadata objects.
NewAccount(id, attrs) ==
    [id |-> id] @@ Defined([phone |-> attrs.phone, email |-> attrs.email])
        @@ [user_metadata |-> attrs.user_metadata, app_metadata |-> attrs.app_metadata]

\* The account updateUserById(id, attrs) leaves: the attributes sent replace
\* the stored ones, every other attribute stays.
UpdatedAccount(u, attrs) == attrs @@ u

\* Where a new account enters the listing is the store's choice.
InsertAt(listing, u, where) ==
    IF where = "front" THEN <<u>> \o listing ELSE Append(listing, u)

IndexOfId(listing, id) == Min({i \in DOMAIN listing : listing[i].id = id})

-----------------------------------------------------------------------------
(* ensureSupabaseUser (src/src/supabase/ensureUser.ts).                    *)

\* const uid = claims.sub ?? claims.user_id
Uid(c) == Nullish(Get(c, "sub"), Get(c, "user_id"))

\* data.users.find(u => u.phone === phone) ?? null
FindByPhone(list, phone) ==
    LET hits == {i \in DOMAIN list : Get(list[i], "phone") = phone}
    IN IF hits = {} THEN <<>> ELSE <<list[Min(hits)]>>

\* data.users.find(u => (u.email || '').toLowerCase() === email.toLowerCase()) ?? null
FindByEmail(list, email) ==
    LET hits == {i \in DOMAIN list :
                    toLowerCase(OrElse(Get(list[i], "email"), <<>>)) = toLowerCase(email)}
    IN IF hits = {} THEN <<>> ELSE <<list[Min(hits)]>>

\* user.user_metadata || {}  and  user.app_metadata || {}
MetaOf(u, k) == IF k \in DOMAIN u THEN u[k] ELSE <<>>

\* user.app_metadata?.roles || []
RolesOf(u) ==
    LET am == MetaOf(u, "app_metadata")
    IN IF "roles" \in DOMAIN am THEN am.roles ELSE <<>>

\* CreateAttrs confirming whatever it is given: both flags true.
CreateAttrsAllConfirmed(c) ==
    [email |-> OrElse(Get(c, "email"), undefined),
     phone |-> OrElse(Get(c, "phone_number"), undefined),
     email_confirm |-> TRUE,
     phone_confirm |-> TRUE,
     user_metadata |-> [firebase_uid |-> Uid(c), provider |-> "firebase-phone"],
     app_metadata |-> [roles |-> <<"authenticated">>]]

\* The argument of createUser (lines 24-31).
CreateAttrs(c) ==
    [email |-> OrElse(Get(c, "email"), undefined),
     phone |-> OrElse(Get(c, "phone_number"), undefined),
     email_confirm |-> Truthy(Get(c, "email")),
     phone_confirm |-> Truthy(Get(c, "phone_number")),
     user_metadata |-> [firebase_uid |-> Uid(c), provider |-> "firebase-phone"],
     app_metadata |-> [roles |-> <<"authenticated">>]]

\* MergedRoles overwriting instead of merging: the previous roles are lost.
MergedRolesOverwriting(u) == <<"authenticated">>

\* Array.from(new Set([...(user.app_metadata?.roles || []), 'authenticated']))
MergedRoles(u) == ArrayFromSet(Append(RolesOf(u), "authenticated"))

\* UpdateAttrs replacing the metadata instead of merging into it.
UpdateAttrsReplacing(u, c) ==
    [user_metadata |-> [firebase_uid |-> Uid(c), provider |-> "firebase-phone"],
     app_metadata |-> [roles |-> MergedRoles(u)] @@ MetaOf(u, "app_metadata")]

\* UpdateAttrs spreading the stored user_metadata over the new provenance
\* keys: an account that is bound already keeps its binding.
UpdateAttrsKeepingBinding(u, c) ==
    [user_metadata |->
        MetaOf(u, "user_metadata") @@ [firebase_uid |-> Uid(c), provider |-> "firebase-phone"],
     app_metadata |-> [roles |-> MergedRoles(u)] @@ MetaOf(u, "app_metadata")]

\* UpdateAttrs sending the phone claim along with the metadata.
UpdateAttrsWithPhone(u, c) ==
    [phone |-> Get(c, "phone_number"),
     user_metadata |->
        [firebase_uid |-> Uid(c), provider |-> "firebase-phone"] @@ MetaOf(u, "user_metadata"),
     app_metadata |-> [roles |-> MergedRoles(u)] @@ MetaOf(u, "app_metadata")]

\* The second argument of updateUserById (lines 35-41); u is the account the
\* lookup returned.
UpdateAttrs(u, c) ==
    [user_metadata |->
        [firebase_uid |-> Uid(c), provider |-> "firebase-phone"] @@ MetaOf(u, "user_metadata"),
     app_metadata |-> [roles |-> MergedRoles(u)] @@ MetaOf(u, "app_metadata")]

\* AfterPhone going on to the email lookup although the phone lookup found
\* the account.
AfterPhoneSearchingOn(found, c) ==
    IF Truthy(Get(c, "email")) THEN "listEmail"
    ELSE IF found = <<>> THEN "createUser" ELSE "updateUserById"

\* Where ensureSupabaseUser goes after the phone lookup left `found` (line 18).
AfterPhone(found, c) ==
    IF found = <<>> /\ Truthy(Get(c, "email")) THEN "listEmail"
    ELSE IF found = <<>> THEN "createUser" ELSE "updateUserById"

\* Where it goes after the email lookup left `found` (line 23).
AfterEmail(found) == IF found = <<>> THEN "createUser" ELSE "updateUserById"

\* AfterEntry looking at the phone claim before it looks at the subject.
AfterEntryPhoneFirst(c) ==
    IF Truthy(Get(c, "phone_number")) THEN "listPhone"
    ELSE IF ~Truthy(Uid(c)) THEN "throw"
    ELSE AfterPhone(<<>>, c)

\* AfterEntry starting with the email lookup.
AfterEntryEmailFirst(c) ==
    IF ~Truthy(Uid(c)) THEN "throw"
    ELSE IF Truthy(Get(c, "email")) THEN "listEmail"
    ELSE IF Truthy(Get(c, "phone_number")) THEN "listPhone"
    ELSE "createUser"

\* Where it goes from its entry (lines 5-13): "throw" is the missing subject.
AfterEntry(c) ==
    IF ~Truthy(Uid(c)) THEN "throw"
    ELSE IF Truthy(Get(c, "phone_number")) THEN "listPhone"
    ELSE AfterPhone(<<>>, c)

-----------------------------------------------------------------------------
(* The edge handler (src/src/next/edge/handler.ts).                        *)

\* json without the cache directive.
jsonCacheable(httpStatus, data) ==
    [status |-> httpStatus,
     body |-> data,
     headers |-> [content_type |-> "application/json"]]

\* json(data, status) of the handler: the Response, with its two fixed headers.
json(httpStatus, data) ==
    [status |-> httpStatus,
     body |-> data,
     headers |-> [content_type |-> "application/json", cache_control |-> "no-store"]]

\* How ensureSupabaseUser ends: it returns the account or it throws.
Returned(u) == [kind |-> "return", user |-> u]
Thrown(msg) == [kind |-> "throw", message |-> msg]
Pending == [kind |-> "pending"]

\* AfterEnsure reporting the subject from sub alone.
AfterEnsureSubOnly(payload, res) ==
    IF res.kind = "throw"
    THEN json(500, [ok |-> FALSE, error |-> "Internal error"])
    ELSE json(200,
            [ok |-> TRUE,
             uid |-> Nullish(Get(payload, "sub"), null),
             phoneNumber |-> Nullish(Get(payload, "phone_number"), null),
             email |-> Nullish(Get(payload, "email"), null),
             supabaseUserId |-> IF "id" \in DOMAIN res.user THEN res.user.id ELSE null,
             note |-> "Verified Firebase token and ensured Supabase user exists."])

\* AfterEnsure passing the reconciler's error text on to the caller.
AfterEnsureLeaking(payload, res) ==
    IF res.kind = "throw"
    THEN json(500, [ok |-> FALSE, error |-> res.message])
    ELSE json(200,
            [ok |-> TRUE,
             uid |-> Nullish(Uid(payload), null),
             phoneNumber |-> Nullish(Get(payload, "phone_number"), null),
             email |-> Nullish(Get(payload, "email"), null),
             supabaseUserId |-> IF "id" \in DOMAIN res.user THEN res.user.id ELSE null,
             note |-> "Verified Firebase token and ensured Supabase user exists."])

\* Lines 46-62 of the handler: the response after ensureSupabaseUser ended
\* with res for the verified payload.
AfterEnsure(payload, res) ==
    IF res.kind = "throw"
    THEN json(500, [ok |-> FALSE, error |-> "Internal error"])
    ELSE json(200,
            [ok |-> TRUE,
             uid |-> Nullish(Uid(payload), null),
             phoneNumber |-> Nullish(Get(payload, "phone_number"), null),
             email |-> Nullish(Get(payload, "email"), null),
             supabaseUserId |-> IF "id" \in DOMAIN res.user THEN res.user.id ELSE null,
             note |-> "Verified Firebase token and ensured Supabase user exists."])

-----------------------------------------------------------------------------
(* Steps of a run. Every await of the code is the boundary of a step.      *)

\* ensureSupabaseUser ends with res: a direct call is over, a handler run
\* answers in the same turn.
Finish(r, res) ==
    /\ result' = [result EXCEPT ![r] = res]
    /\ pc' = [pc EXCEPT ![r] = "done"]
    /\ response' = [response EXCEPT ![r] =
            IF via[r] = "handler" THEN <<AfterEnsure(claims[r], res)>> ELSE <<>>]

Goto(r, next) ==
    /\ pc' = [pc EXCEPT ![r] = next]
    /\ UNCHANGED <<result, response>>

\* One store call: the method, its arguments, and how the store answered
\* ("ok", "error" for a reported error, "rejected" for a thrown one).
Call(op, args, outcome) == [op |-> op, args |-> args, outcome |-> outcome]

Logged(r, call) == calls' = [calls EXCEPT ![r] = Append(@, call)]

\* Lines 5-13: from the call of ensureSupabaseUser to its first await.
Enter(r, c, mode) ==
    /\ via' = [via EXCEPT ![r] = mode]
    /\ claims' = [claims EXCEPT ![r] = c]
    /\ IF AfterEntry(c) = "throw"
       THEN /\ result' = [result EXCEPT ![r] = Thrown("Missing subject in token")]
            /\ pc' = [pc EXCEPT ![r] = "done"]
            /\ response' = [response EXCEPT ![r] =
                    IF mode = "handler"
                    THEN <<AfterEnsure(c, Thrown("Missing subject in token"))>> ELSE <<>>]
       ELSE /\ pc' = [pc EXCEPT ![r] = AfterEntry(c)]
            /\ UNCHANGED <<result, response>>

\* A direct call ensureSupabaseUser(admin, c), as the integration tests make.
CallEnsure(r) ==
    /\ pc[r] = "idle"
    /\ \E c \in ClaimSets : Enter(r, c, "direct")
    /\ UNCHANGED <<users, nextId, req, user, calls, verification, users0, clients, keySets, used, authxVars>>

\* Lines 13-16: await listUsers(), then the search by phone.
ListUsersByPhone(r) ==
    /\ pc[r] = "listPhone"
    /\ Logged(r, Call("listUsers", <<>>, "ok"))
    /\ LET found == FindByPhone(listUsers(users, <<>>), claims[r].phone_number)
       IN /\ user' = [user EXCEPT ![r] = found]
          /\ Goto(r, AfterPhone(found, claims[r]))
    /\ UNCHANGED <<users, nextId, via, req, claims, verification, users0, clients, keySets, used, authxVars>>

\* Lines 18-21: await listUsers({page: 1, perPage: 200}), then the search by email.
ListUsersByEmail(r) ==
    /\ pc[r] = "listEmail"
    /\ Logged(r, Call("listUsers", [page |-> 1, perPage |-> 200], "ok"))
    /\ LET found == FindByEmail(listUsers(users, [page |-> 1, perPage |-> 200]), claims[r].email)
       IN /\ user' = [user EXCEPT ![r] = found]
          /\ Goto(r, AfterEmail(found))
    /\ UNCHANGED <<users, nextId, via, req, claims, verification, users0, clients, keySets, used, authxVars>>

\* CreateUser behind a lock: no createUser while another run stands between
\* its lookup and its write.
CreateUserLocked(r) ==
    /\ pc[r] = "createUser"
    /\ \A q \in Runs \ {r} : pc[q] \notin {"listEmail", "createUser", "updateUserById"}
    /\ Logged(r, Call("createUser", CreateAttrs(claims[r]), "ok"))
    /\ LET created == NewAccount(nextId, CreateAttrs(claims[r]))
       IN /\ \E where \in {"front", "end"} : users' = InsertAt(users, created, where)
          /\ nextId' = nextId + 1
          /\ user' = [user EXCEPT ![r] = <<created>>]
          /\ Finish(r, Returned(created))
    /\ UNCHANGED <<via, req, claims, verification, users0, clients, keySets, used, authxVars>>

\* Lines 23-33, the store accepting: createUser stores the account and
\* ensureSupabaseUser returns data.user.
CreateUser(r) ==
    /\ pc[r] = "createUser"
    /\ Logged(r, Call("createUser", CreateAttrs(claims[r]), "ok"))
    /\ LET created == NewAccount(nextId, CreateAttrs(claims[r]))
       IN /\ \E where \in {"front", "end"} : users' = InsertAt(users, created, where)
          /\ nextId' = nextId + 1
          /\ user' = [user EXCEPT ![r] = <<created>>]
          /\ Finish(r, Returned(created))
    /\ UNCHANGED <<via, req, claims, verification, users0, clients, keySets, used, authxVars>>

\* Lines 23-32, the store reporting an error: nothing is stored.
CreateUserError(r) ==
    /\ pc[r] = "createUser"
    /\ Logged(r, Call("createUser", CreateAttrs(claims[r]), "error"))
    /\ Finish(r, Thrown("Failed to create user"))
    /\ UNCHANGED <<users, nextId, via, req, claims, user, verification, users0, clients, keySets, used, authxVars>>

\* Lines 34-44, the store accepting: the account with the id of the looked-up
\* one is updated and ensureSupabaseUser returns data.user.
UpdateUserById(r) ==
    /\ pc[r] = "updateUserById"
    /\ LET found == user[r][1]
           attrs == UpdateAttrs(found, claims[r])
           i == IndexOfId(users, found.id)
           updated == UpdatedAccount(users[i], attrs)
       IN /\ Logged(r, Call("updateUserById", [id |-> found.id, attrs |-> attrs], "ok"))
          /\ users' = [users EXCEPT ![i] = updated]
          /\ user' = [user EXCEPT ![r] = <<updated>>]
          /\ Finish(r, Returned(updated))
    /\ UNCHANGED <<nextId, via, req, claims, verification, users0, clients, keySets, used, authxVars>>

\* Lines 34-42, the store reporting an error: nothing is stored.
UpdateUserByIdError(r) ==
    /\ pc[r] = "updateUserById"
    /\ Logged(r, Call("updateUserById",
                       [id |-> user[r][1].id, attrs |-> UpdateAttrs(user[r][1], claims[r])],
                       "error"))
    /\ Finish(r, Thrown("Failed to update user"))
    /\ UNCHANGED <<users, nextId, via, req, claims, user, verification, users0, clients, keySets, used, authxVars>>

\* StoreCallRejects with the exception leaving the handler too: the run ends
\* without a response.
StoreCallRejectsEscaping(r) ==
    /\ pc[r] \in {"listPhone", "listEmail", "createUser", "updateUserById"}
    /\ Logged(r, Call(IF pc[r] \in {"listPhone", "listEmail"} THEN "listUsers" ELSE pc[r],
                       <<>>, "rejected"))
    /\ result' = [result EXCEPT ![r] = Thrown("store call rejected")]
    /\ pc' = [pc EXCEPT ![r] = "done"]
    /\ UNCHANGED <<users, nextId, via, req, claims, user, verification, users0, response, clients, keySets, used, authxVars>>

\* Any of the four awaited store calls rejecting: the exception leaves
\* ensureSupabaseUser as it is.
StoreCallRejects(r) ==
    /\ pc[r] \in {"listPhone", "listEmail", "createUser", "updateUserById"}
    /\ Logged(r, Call(IF pc[r] \in {"listPhone", "listEmail"} THEN "listUsers" ELSE pc[r],
                       CASE pc[r] = "listPhone" -> <<>>
                         [] pc[r] = "listEmail" -> [page |-> 1, perPage |-> 200]
                         [] pc[r] = "createUser" -> CreateAttrs(claims[r])
                         [] pc[r] = "updateUserById" ->
                                [id |-> user[r][1].id, attrs |-> UpdateAttrs(user[r][1], claims[r])],
                       "rejected"))
    /\ Finish(r, Thrown("store call rejected"))
    /\ UNCHANGED <<users, nextId, via, req, claims, user, verification, users0, clients, keySets, used, authxVars>>

-----------------------------------------------------------------------------
(* The handler's inputs: the request, its body and the ID token.           *)

applicationJson ==
    <<"a", "p", "p", "l", "i", "c", "a", "t", "i", "o", "n", "/", "j", "s", "o", "n">>
textPlain == <<"t", "e", "x", "t", "/", "p", "l", "a", "i", "n">>
applicationJsonUtf8 == applicationJson \o <<";", " ", "c", "h", "a", "r", "s", "e", "t", "=", "u", "t", "f", "-", "8">>

\* Another media type (RFC 7464), whose name starts like application/json.
applicationJsonSeq == applicationJson \o <<"-", "s", "e", "q">>

\* String.prototype.includes
Includes(s, sub) ==
    \E i \in 0..(Len(s) - Len(sub)) : SubSeq(s, i + 1, i + Len(sub)) = sub

\* What req?.headers?.get?.("content-type") yields: undefined when the request
\* has no such header (or no headers at all).
ContentTypes ==
    {undefined, <<>>, textPlain, applicationJson, applicationJsonUtf8, applicationJsonSeq}

\* options.projectId of buildVerifyRouteHandler.
projectId == <<"p", "1">>
otherProjectId == <<"p", "2">>

\* `https://securetoken.google.com/${projectId}`
Issuer(project) == <<"https://securetoken.google.com/">> \o project

\* An ID token: a string of `length` characters that decodes to a JWT with the
\* payload `payload`, signed by a key of Google's key set or not, expired or not.
Token(length, signed, iss, aud, expired, c) ==
    [length |-> length, signed |-> signed, expired |-> expired,
     payload |-> [iss |-> iss, aud |-> aud] @@ c]

\* The subject under sub, under user_id, or under neither, with a phone, an
\* email, both or neither; and two payloads with empty strings.
TokenClaimSets ==
    {Payload(u1, undefined, undefined, undefined),
     Payload(u1, undefined, phone1, undefined),
     Payload(u1, undefined, phone1, emailLower),
     Payload(undefined, u2, phone1, undefined),
     Payload(undefined, u2, undefined, emailLower),
     Payload(undefined, undefined, phone1, emailLower),
     Payload(u1, undefined, <<>>, <<>>),
     Payload(<<>>, u2, phone1, undefined)}

someClaims == Payload(u1, undefined, phone1, undefined)

Tokens ==
    {Token(100, TRUE, Issuer(projectId), projectId, FALSE, c) : c \in TokenClaimSets}
    \cup {Token(99, TRUE, Issuer(projectId), projectId, FALSE, someClaims),
          Token(100, FALSE, Issuer(projectId), projectId, FALSE, someClaims),
          Token(100, TRUE, Issuer(otherProjectId), projectId, FALSE, someClaims),
          Token(100, TRUE, Issuer(projectId), otherProjectId, FALSE, someClaims),
          Token(100, TRUE, Issuer(projectId), projectId, TRUE, someClaims)}

\* JSON values, tagged with what typeof tells apart.
JsonNull == [type |-> "null"]
JsonNumber(n) == [type |-> "number", value |-> n]
JsonString(t) == [type |-> "string", value |-> t]
JsonObject(o) == [type |-> "object", value |-> o]

\* What req.json() settles with: a rejection, or the parsed body.
JsonRejects == [type |-> "rejects"]

Bodies ==
    {JsonRejects, JsonNull, JsonObject(<<>>), JsonObject([idToken |-> JsonNumber(42)])}
    \cup {JsonObject([idToken |-> JsonString(t)]) : t \in Tokens}

\* InvalidPayload with the threshold off by one: 100 characters are too few.
InvalidPayloadOffByOne(body) ==
    \/ body.type /= "object"
    \/ "idToken" \notin DOMAIN body.value
    \/ body.value.idToken.type /= "string"
    \/ body.value.idToken.value.length <= 100

\* !body || typeof body.idToken !== "string" || body.idToken.length < 100
InvalidPayload(body) ==
    \/ body.type /= "object"
    \/ "idToken" \notin DOMAIN body.value
    \/ body.value.idToken.type /= "string"
    \/ body.value.idToken.value.length < 100

\* jwtVerify(idToken, JWKS, {issuer, audience}) of jose: the signature against
\* the key set, then the issuer, the audience and the expiry.
jwtVerify(token, options) ==
    IF ~token.signed THEN Thrown("JWSSignatureVerificationFailed")
    ELSE IF token.payload.iss /= options.issuer THEN Thrown("JWTClaimValidationFailed: iss")
    ELSE IF token.payload.aud /= options.audience THEN Thrown("JWTClaimValidationFailed: aud")
    ELSE IF token.expired THEN Thrown("JWTExpired")
    ELSE [kind |-> "return", payload |-> token.payload]

\* verifyFirebaseIdToken checking against one fixed project, whatever
\* projectId it is called with.
verifyAgainstFixedProject(idToken, project) ==
    jwtVerify(idToken, [issuer |-> Issuer(projectId), audience |-> projectId])

\* verifyFirebaseIdToken (src/src/core/verify.ts)
verifyFirebaseIdToken(idToken, project) ==
    jwtVerify(idToken, [issuer |-> Issuer(project), audience |-> project])

Respond(r, resp) ==
    /\ response' = [response EXCEPT ![r] = <<resp>>]
    /\ pc' = [pc EXCEPT ![r] = "done"]
    /\ UNCHANGED result

\* Lines 25-30: the handler is invoked and checks the content type.
Receive(r) ==
    /\ clients /= <<>>
    /\ pc[r] = "idle"
    /\ \A q \in Runs : q < r => pc[q] /= "idle"
    /\ via' = [via EXCEPT ![r] = "handler"]
    /\ \E ct \in ContentTypes :
          LET contentType == OrElse(ct, <<>>)
          IN IF ~Includes(contentType, applicationJson)
             THEN /\ req' = [req EXCEPT ![r] = [contentType |-> ct]]
                  /\ Respond(r, json(415, [ok |-> FALSE, error |-> "Unsupported content type"]))
             ELSE /\ req' = [req EXCEPT ![r] = [contentType |-> ct]]
                  /\ Goto(r, "json")
    /\ UNCHANGED <<users, nextId, claims, user, calls, verification, users0, clients, keySets, used, authxVars>>

\* Lines 32-35: await req.json().catch(() => null), then the payload gate.
ReadJson(r) ==
    /\ pc[r] = "json"
    /\ \E settled \in Bodies :
          LET body == IF settled = JsonRejects THEN JsonNull ELSE settled
          IN IF InvalidPayload(body)
             THEN /\ req' = [req EXCEPT ![r] = [contentType |-> @.contentType, json |-> settled]]
                  /\ Respond(r, json(400, [ok |-> FALSE, error |-> "Invalid payload"]))
             ELSE /\ req' = [req EXCEPT ![r] = [json |-> settled]]
                  /\ Goto(r, "verify")
    /\ UNCHANGED <<users, nextId, via, claims, user, calls, verification, users0, clients, keySets, used, authxVars>>

\* getGoogleJWKS() (src/src/core/types.ts) as run r calls it:
\* createRemoteJWKSet is called on every call, so what it returns is a new
\* key set, here named after the run that had it constructed.
getGoogleJWKS(r) == r

\* Line 7 of verifyFirebaseIdToken in run r, which goes on with the store
\* client `client` (0: with none).
GetKeySet(r, client) ==
    /\ keySets' = keySets \cup {getGoogleJWKS(r)}
    /\ used' = [used EXCEPT ![r] = [client |-> client, keySet |-> getGoogleJWKS(r)]]

\* The options of buildVerifyRouteHandler besides projectId.
supabaseUrl == "https://store.example"
supabaseServiceRoleKey == "service-role-key"

\* makeAdminClient(config): a new client of the store.
makeAdminClient(config) ==
    [url |-> config.url, serviceRoleKey |-> config.serviceRoleKey,
     autoRefreshToken |-> FALSE, persistSession |-> FALSE]

\* `admin` of buildVerifyRouteHandler: the client constructed at line 23, the
\* first one there is.
admin == 1

\* Lines 21-24: buildVerifyRouteHandler(options) constructs the client and
\* returns the handler.
buildVerifyRouteHandler ==
    /\ clients = <<>>
    /\ clients' = <<makeAdminClient([url |-> supabaseUrl,
                                     serviceRoleKey |-> supabaseServiceRoleKey])>>
    /\ UNCHANGED <<users, nextId, pc, via, req, claims, user, calls, result, response,
                   verification, users0, keySets, used, authxVars>>

\* Verify constructing a store client of its own for every request.
VerifyWithOwnClient(r) ==
    /\ pc[r] = "verify"
    /\ LET res == verifyFirebaseIdToken(req[r].json.value.idToken.value, projectId)
       IN /\ verification' = [verification EXCEPT ![r] = res]
          /\ req' = [req EXCEPT ![r] = <<>>]
          /\ IF res.kind = "throw"
             THEN /\ Respond(r, json(401, [ok |-> FALSE,
                                           error |-> "Invalid or expired Firebase ID token"]))
                  /\ GetKeySet(r, 0)
                  /\ UNCHANGED <<via, claims, clients>>
             ELSE /\ Enter(r, res.payload, "handler")
                  /\ clients' = Append(clients, makeAdminClient([url |-> supabaseUrl,
                                        serviceRoleKey |-> supabaseServiceRoleKey]))
                  /\ GetKeySet(r, Len(clients) + 1)
    /\ UNCHANGED <<users, nextId, user, calls, users0, authxVars>>

\* Verify telling the caller why the verification failed.
VerifyTellingWhy(r) ==
    /\ pc[r] = "verify"
    /\ LET res == verifyFirebaseIdToken(req[r].json.value.idToken.value, projectId)
       IN /\ verification' = [verification EXCEPT ![r] = res]
          /\ req' = [req EXCEPT ![r] = <<>>]
          /\ IF res.kind = "throw"
             THEN /\ Respond(r, json(401, [ok |-> FALSE, error |-> res.message]))
                  /\ GetKeySet(r, 0)
                  /\ UNCHANGED <<via, claims>>
             ELSE /\ Enter(r, res.payload, "handler")
                  /\ GetKeySet(r, admin)
    /\ UNCHANGED <<users, nextId, user, calls, users0, clients, authxVars>>

\* Lines 37-46: await verifyFirebaseIdToken; a failure answers 401, a success
\* enters ensureSupabaseUser with the payload.
Verify(r) ==
    /\ pc[r] = "verify"
    /\ LET res == verifyFirebaseIdToken(req[r].json.value.idToken.value, projectId)
       IN /\ verification' = [verification EXCEPT ![r] = res]
          /\ req' = [req EXCEPT ![r] = <<>>]
          /\ IF res.kind = "throw"
             THEN /\ Respond(r, json(401, [ok |-> FALSE,
                                           error |-> "Invalid or expired Firebase ID token"]))
                  /\ GetKeySet(r, 0)
                  /\ UNCHANGED <<via, claims>>
             ELSE /\ Enter(r, res.payload, "handler")
                  /\ GetKeySet(r, admin)
    /\ UNCHANGED <<users, nextId, user, calls, users0, clients, authxVars>>

\* Lines 37-43: the key set cannot be fetched, so jwtVerify throws.
VerifyKeyFetchFails(r) ==
    /\ pc[r] = "verify"
    /\ verification' = [verification EXCEPT ![r] = Thrown("JWKSNoMatchingKey")]
    /\ GetKeySet(r, 0)
    /\ req' = [req EXCEPT ![r] = <<>>]
    /\ Respond(r, json(401, [ok |-> FALSE, error |-> "Invalid or expired Firebase ID token"]))
    /\ UNCHANGED <<users, nextId, via, claims, user, calls, users0, clients, authxVars>>

-----------------------------------------------------------------------------
(* The Authx component (src/src/ui/Authx.tsx).                             *)
(* A state change is followed at once by the render it causes and by the   *)
(* effects whose dependencies changed with it; every await of handleSend   *)
(* and handleVerify is the boundary of a step. The status line, which no   *)
(* decision of the component reads, is left out; an error line is a plain  *)
(* string: nothing is computed from its characters.                        *)

\* How many handleSend and handleVerify calls the user lets be in flight.
MaxSends == 1
MaxVerifies == 1

\* const [otp, setOtp] = useState(['', '', '', '', '', ''])
OtpBoxes == 6

\* What the user has in the phone input (the country stays initialCountry, GB).
LocalPhones == {"", "7400123456", "07400123456", "7400123457"}

\* toE164(country, local) for GB: the national and the trunk-prefixed writing
\* of one number give the same e164; nothing typed gives the bare dial code.
toE164(local) ==
    CASE local = "7400123456" -> [e164 |-> "+447400123456", valid |-> TRUE]
      [] local = "07400123456" -> [e164 |-> "+447400123456", valid |-> TRUE]
      [] local = "7400123457" -> [e164 |-> "+447400123457", valid |-> TRUE]
      [] OTHER -> [e164 |-> "+44", valid |-> FALSE]

e164 == toE164(localPhone).e164
valid == toE164(localPhone).valid

\* otp.join('')
RECURSIVE join(_)
join(boxes) == IF boxes = <<>> THEN <<>> ELSE Head(boxes) \o join(Tail(boxes))

otpValue == join(otp)

IsDigit(c) == c \in {"0", "1", "2", "3", "4", "5", "6", "7", "8", "9"}

\* value.replace(/\D/g, '')
OnlyDigits(value) == SelectSeq(value, IsDigit)

code111111 == <<"1", "1", "1", "1", "1", "1">>

\* What a change event of an OTP box can carry, what a paste can carry and
\* what the Web OTP credential can carry.
OtpChangeValues == {<<>>, <<"1">>, <<"x">>, <<"1", "1">>, code111111}
OtpPasteTexts == {<<"x">>, <<"1", "-", "1">>, code111111}
OtpCredentialCodes == {<<"1", "1">>, code111111}

\* What the server behind verifyEndpoint can answer: the handler's answers
\* and an answer that is no JSON.
VerifyResponses ==
    {json(200, [ok |-> TRUE, uid |-> u1]),
     json(401, [ok |-> FALSE, error |-> "Invalid or expired Firebase ID token"]),
     [status |-> 502, text |-> "Bad Gateway"]}

\* await res.json().catch(() => ({}))
resJson(res) == IF "body" \in DOMAIN res THEN res.body ELSE <<>>

\* A test that takes any parsed JSON body for an approval.
jsonParsed(body) == body /= <<>>

\* json && json.ok
jsonOk(body) == "ok" \in DOMAIN body /\ body.ok = TRUE

\* The errorMsg of handleVerify for string error members.
errorMsg(body, res) ==
    IF "error" \in DOMAIN body /\ body.error /= ""
    THEN body.error
    ELSE "Server rejected (" \o ToString(res.status) \o ")"

\* The message of the Error an awaited call rejects with: the Firebase SDK
\* and fetch reject with an Error that has a message.
RejectionMessage(at) ==
    CASE at = "ensureRecaptcha" -> "reCAPTCHA container not found in DOM. Please try again."
      [] at = "fetch" -> "Failed to fetch"
      [] OTHER -> "Firebase: Error (auth/network-request-failed)."

One(c) == SetToBag({c})

\* handleSend up to its first await, called with the e164 of its render.
StartSend(number) ==
    /\ sending' = TRUE
    /\ error' = ""
    /\ sends' = sends (+) One([at |-> "ensureRecaptcha", e164 |-> number])

\* handleVerify up to its first await, called with the otpValue of its render.
StartVerify(code) ==
    IF Len(code) /= 6
    THEN /\ sending' = FALSE
         /\ UNCHANGED <<error, verifies>>
    ELSE IF confirmationRef = <<>>
    THEN /\ error' = "No confirmation in memory. Please resend the code."
         /\ sending' = FALSE
         /\ UNCHANGED verifies
    ELSE /\ sending' = TRUE
         /\ error' = ""
         /\ verifies' = verifies (+) One([at |-> "confirm",
                                          confirmation |-> confirmationRef[1],
                                          code |-> code])

\* The auto-send effect, for a render with the phone input newLocal and the
\* step newStep: when valid, step or handleSend (that is, e164) changed, the
\* cleanup of the last run clears its timer and the effect runs again.
AutoSendEffect(newLocal, newStep) ==
    LET old == toE164(localPhone)
        new == toE164(newLocal)
    IN  IF old.valid = new.valid /\ step = newStep /\ old.e164 = new.e164
        THEN UNCHANGED <<timer, didAutoSendRef>>
        ELSE IF newStep = "phone" /\ new.valid /\ ~didAutoSendRef
        THEN /\ didAutoSendRef' = TRUE
             /\ timer' = <<new.e164>>
        ELSE /\ timer' = <<>>
             /\ UNCHANGED didAutoSendRef

\* An auto-verify effect that does nothing while sending is set.
AutoVerifyEffectUnlessSending(newOtp) ==
    IF join(newOtp) /= otpValue /\ Len(join(newOtp)) = 6 /\ ~sending
    THEN StartVerify(join(newOtp))
    ELSE UNCHANGED <<sending, error, verifies>>

\* The auto-verify effect, for a render with the boxes newOtp: it runs when
\* otpValue (and with it handleVerify) changed.
AutoVerifyEffect(newOtp) ==
    IF join(newOtp) /= otpValue /\ Len(join(newOtp)) = 6
    THEN StartVerify(join(newOtp))
    ELSE UNCHANGED <<sending, error, verifies>>

\* The Web OTP effect, for a render with the step newStep: leaving a step
\* aborts the pending request, entering 'otp' makes one.
WebOtpEffect(newStep) ==
    IF newStep = step THEN UNCHANGED otpCredential
    ELSE otpCredential' = (newStep = "otp")

\* The boxes after onOtpChange(idx, value).
OtpAfterChange(idx, value) ==
    LET digits == OnlyDigits(value)
    IN  IF Len(digits) <= 1
        THEN [otp EXCEPT ![idx + 1] = digits]
        ELSE [i \in 1..OtpBoxes |->
                IF i - 1 >= idx /\ i - idx <= Len(digits) THEN <<digits[i - idx]>> ELSE otp[i]]

\* The boxes after onOtpPaste(idx, e) with the clipboard text.
OtpAfterPaste(idx, text) ==
    LET digits == OnlyDigits(text)
    IN  [i \in 1..OtpBoxes |->
            IF i - 1 >= idx /\ i - idx <= Len(digits) THEN <<digits[i - idx]>> ELSE otp[i]]

FirstEmptyBox == Min({i \in 0..(OtpBoxes - 1) : otp[i + 1] = <<>>} \cup {OtpBoxes})

LastFilledBox == OtpBoxes - 1 - Min({i \in 0..(OtpBoxes - 1) : otp[OtpBoxes - i] /= <<>>} \cup {OtpBoxes})

\* Where the user's input goes: the focus moves to the next box after every
\* digit, so that digits arrive in the first empty box and a deletion empties
\* the last filled one; an autofill or a paste of several characters also goes
\* to the first box.
Focused(idx, value) ==
    \/ OnlyDigits(value) /= <<>> /\ idx = FirstEmptyBox
    \/ Len(value) > 1 /\ idx = 0
    \/ OnlyDigits(value) = <<>> /\ idx = LastFilledBox

\* The user does not start another verification while MaxVerifies are in flight.
MayVerify(newOtp) ==
    (join(newOtp) /= otpValue /\ Len(join(newOtp)) = 6)
        => BagCardinality(verifies) < MaxVerifies

MaySend == BagCardinality(sends) + Len(timer) < MaxSends

\* onChange of the phone input: setLocalPhone(e.target.value).
setLocalPhone(v) ==
    /\ step = "phone"
    /\ ~sending
    /\ v /= localPhone
    /\ localPhone' = v
    /\ AutoSendEffect(v, step)
    /\ UNCHANGED <<step, sending, otp, error, confirmationRef, sends, verifies,
                   otpCredential, handlerVars>>

\* The 100 ms timer of the auto-send effect fires: void handleSend().
AutoSendTimer ==
    /\ timer /= <<>>
    /\ timer' = <<>>
    /\ StartSend(timer[1])
    /\ UNCHANGED <<localPhone, step, otp, confirmationRef, didAutoSendRef, verifies,
                   otpCredential, handlerVars>>

\* The send button of the phone step: disabled={!valid || sending}.
SendCodeButton ==
    /\ step = "phone"
    /\ valid
    /\ ~sending
    /\ MaySend
    /\ StartSend(e164)
    /\ UNCHANGED <<localPhone, step, otp, confirmationRef, didAutoSendRef, timer, verifies,
                   otpCredential, handlerVars>>

\* The resend button of the otp step: disabled={sending}.
ResendCodeButton ==
    /\ step = "otp"
    /\ ~sending
    /\ MaySend
    /\ StartSend(e164)
    /\ UNCHANGED <<localPhone, step, otp, confirmationRef, didAutoSendRef, timer, verifies,
                   otpCredential, handlerVars>>

\* await ensureRecaptcha() resolves: signInWithPhoneNumber is called.
EnsureRecaptchaResolves ==
    \E c \in BagToSet(sends) :
        /\ c.at = "ensureRecaptcha"
        /\ sends' = (sends (-) One(c)) (+) One([c EXCEPT !.at = "signInWithPhoneNumber"])
        /\ UNCHANGED <<localPhone, step, sending, otp, error, confirmationRef,
                       didAutoSendRef, timer, verifies, otpCredential, handlerVars>>

\* await signInWithPhoneNumber(...) resolves: the rest of the try block and
\* the finally block.
SignInResolves ==
    \E c \in BagToSet(sends) :
        /\ c.at = "signInWithPhoneNumber"
        /\ sends' = sends (-) One(c)
        /\ confirmationRef' = <<c.e164>>
        /\ step' = "otp"
        /\ sending' = FALSE
        /\ AutoSendEffect(localPhone, "otp")
        /\ WebOtpEffect("otp")
        /\ UNCHANGED <<localPhone, otp, error, verifies, handlerVars>>

\* The await `at` of handleSend rejects: the catch block and the finally block.
SendRejects(at) ==
    \E c \in BagToSet(sends) :
        /\ c.at = at
        /\ sends' = sends (-) One(c)
        /\ error' = RejectionMessage(c.at)
        /\ sending' = FALSE
        /\ UNCHANGED <<localPhone, step, otp, confirmationRef, didAutoSendRef, timer,
                       verifies, otpCredential, handlerVars>>

\* onChange of OTP box idx (maxLength 6 for the first box, 1 for the others).
onOtpChange(idx, value) ==
    /\ step = "otp"
    /\ Len(value) <= (IF idx = 0 THEN 6 ELSE 1)
    /\ Focused(idx, value)
    /\ MayVerify(OtpAfterChange(idx, value))
    /\ otp' = OtpAfterChange(idx, value)
    /\ AutoVerifyEffect(OtpAfterChange(idx, value))
    /\ UNCHANGED <<localPhone, step, confirmationRef, didAutoSendRef, timer, sends,
                   otpCredential, handlerVars>>

\* onPaste of OTP box idx: a text without digits is left to the browser.
onOtpPaste(idx, text) ==
    /\ step = "otp"
    /\ OnlyDigits(text) /= <<>>
    /\ Focused(idx, text)
    /\ MayVerify(OtpAfterPaste(idx, text))
    /\ otp' = OtpAfterPaste(idx, text)
    /\ AutoVerifyEffect(OtpAfterPaste(idx, text))
    /\ UNCHANGED <<localPhone, step, confirmationRef, didAutoSendRef, timer, sends,
                   otpCredential, handlerVars>>

\* navigator.credentials.get({otp}) of the Web OTP effect resolves with a code.
WebOtpResolves(code) ==
    LET digits == SubSeq(OnlyDigits(code), 1, IF Len(OnlyDigits(code)) < 6 THEN Len(OnlyDigits(code)) ELSE 6)
        filled == [i \in 1..OtpBoxes |-> <<digits[i]>>]
    IN  /\ otpCredential
        /\ otpCredential' = FALSE
        /\ IF Len(digits) = 6
           THEN /\ MayVerify(filled)
                /\ otp' = filled
                /\ AutoVerifyEffect(filled)
           ELSE UNCHANGED <<otp, sending, error, verifies>>
        /\ UNCHANGED <<localPhone, step, confirmationRef, didAutoSendRef, timer, sends,
                       handlerVars>>

\* The verify button: disabled={sending || otpValue.length !== 6}.
VerifyButton ==
    /\ step = "otp"
    /\ ~sending
    /\ Len(otpValue) = 6
    /\ BagCardinality(verifies) < MaxVerifies
    /\ StartVerify(otpValue)
    /\ UNCHANGED <<localPhone, step, otp, confirmationRef, didAutoSendRef, timer, sends,
                   otpCredential, handlerVars>>

\* await confirmationRef.current.confirm(otpValue) resolves: getIdToken(true).
ConfirmResolves ==
    \E c \in BagToSet(verifies) :
        /\ c.at = "confirm"
        /\ verifies' = (verifies (-) One(c)) (+) One([c EXCEPT !.at = "getIdToken"])
        /\ UNCHANGED <<localPhone, step, sending, otp, error, confirmationRef,
                       didAutoSendRef, timer, sends, otpCredential, handlerVars>>

\* await user.getIdToken(true) resolves: the POST to verifyEndpoint is sent.
GetIdTokenResolves ==
    \E c \in BagToSet(verifies) :
        /\ c.at = "getIdToken"
        /\ verifies' = (verifies (-) One(c)) (+) One([c EXCEPT !.at = "fetch"])
        /\ UNCHANGED <<localPhone, step, sending, otp, error, confirmationRef,
                       didAutoSendRef, timer, sends, otpCredential, handlerVars>>

\* await fetch(verifyEndpoint, ...) resolves with a response: res.json().
FetchResolves ==
    \E c \in BagToSet(verifies) : \E res \in VerifyResponses :
        /\ c.at = "fetch"
        /\ verifies' = (verifies (-) One(c)) (+)
                            One([at |-> "json", confirmation |-> c.confirmation,
                                 code |-> c.code, res |-> res])
        /\ UNCHANGED <<localPhone, step, sending, otp, error, confirmationRef,
                       didAutoSendRef, timer, sends, otpCredential, handlerVars>>

\* await res.json().catch(() => ({})) settles: the rest of the try block and
\* the finally block.
ResJsonSettles ==
    \E c \in BagToSet(verifies) :
        /\ c.at = "json"
        /\ verifies' = verifies (-) One(c)
        /\ IF jsonOk(resJson(c.res))
           THEN /\ step' = "done"
                /\ AutoSendEffect(localPhone, "done")
                /\ WebOtpEffect("done")
                /\ UNCHANGED error
           ELSE /\ error' = errorMsg(resJson(c.res), c.res)
                /\ UNCHANGED <<step, didAutoSendRef, timer, otpCredential>>
        /\ sending' = FALSE
        /\ UNCHANGED <<localPhone, otp, confirmationRef, sends, handlerVars>>

\* The await `at` of handleVerify (any but res.json(), which is caught on the
\* spot) rejects: the catch block and the finally block.
VerifyRejects(at) ==
    \E c \in BagToSet(verifies) :
        /\ c.at = at
        /\ verifies' = verifies (-) One(c)
        /\ error' = RejectionMessage(c.at)
        /\ sending' = FALSE
        /\ UNCHANGED <<localPhone, step, otp, confirmationRef, didAutoSendRef, timer,
                       sends, otpCredential, handlerVars>>

\* The component after its first render.
InitAuthx ==
    /\ localPhone = ""
    /\ step = "phone"
    /\ sending = FALSE
    /\ otp = [i \in 1..OtpBoxes |-> <<>>]
    /\ error = ""
    /\ confirmationRef = <<>>
    /\ didAutoSendRef = FALSE
    /\ timer = <<>>
    /\ sends = EmptyBag
    /\ verifies = EmptyBag
    /\ otpCredential = FALSE

-----------------------------------------------------------------------------
(* The accounts the store may hold when the first run starts.              *)

\* An account of somebody else: an anonymous account, without phone or email.
Filler(i) == [id |-> 100 + i]

Fill(n) == [i \in 1..n |-> Filler(i)]

\* An account with phone1, a role and metadata of its own.
accountA ==
    [id |-> 1, phone |-> phone1,
     user_metadata |-> [name |-> "Ann"],
     app_metadata |-> [roles |-> <<"admin">>, plan |-> "pro"]]

\* An account with the email a@b and nothing else.
accountB == [id |-> 2, email |-> emailLower]

SmallStores == {<<>>, <<accountA, accountB>>}

LargeStores ==
    {Fill(DefaultPerPage) \o <<accountA, accountB>>, Fill(200) \o <<accountA, accountB>>}

MaxId(listing) ==
    IF listing = <<>> THEN 0
    ELSE CHOOSE m \in {listing[i].id : i \in DOMAIN listing} :
            \A i \in DOMAIN listing : listing[i].id <= m

InitWith(stores) ==
    /\ users \in stores
    /\ users0 = users
    /\ nextId = MaxId(users) + 1
    /\ pc = [r \in Runs |-> "idle"]
    /\ via = [r \in Runs |-> "none"]
    /\ req = [r \in Runs |-> <<>>]
    /\ claims = [r \in Runs |-> <<>>]
    /\ user = [r \in Runs |-> <<>>]
    /\ calls = [r \in Runs |-> <<>>]
    /\ result = [r \in Runs |-> Pending]
    /\ response = [r \in Runs |-> <<>>]
    /\ verification = [r \in Runs |-> Pending]
    /\ clients = <<>>
    /\ keySets = {}
    /\ used = [r \in Runs |-> [client |-> 0, keySet |-> 0]]
    /\ InitAuthx

-----------------------------------------------------------------------------
(* Spec: handler runs, interleaved at their awaits.                        *)

Init == InitWith(SmallStores)

Next ==
    \/ buildVerifyRouteHandler
    \/ \E r \in Runs :
        \/ Receive(r)
        \/ ReadJson(r)
        \/ Verify(r)
        \/ VerifyKeyFetchFails(r)
        \/ ListUsersByPhone(r)
        \/ ListUsersByEmail(r)
        \/ CreateUser(r)
        \/ CreateUserError(r)
        \/ UpdateUserById(r)
        \/ UpdateUserByIdError(r)
        \/ StoreCallRejects(r)

Spec == Init /\ [][Next]_vars

(* SpecSeq: direct calls of ensureSupabaseUser, one after the other.       *)

InitSeq == InitWith(SmallStores \cup LargeStores)

\* The next call starts when the one before it has ended.
CallEnsureSeq(r) ==
    /\ \A q \in Runs : q < r => pc[q] = "done"
    /\ CallEnsure(r)

NextSeq ==
    \E r \in Runs :
        \/ CallEnsureSeq(r)
        \/ ListUsersByPhone(r)
        \/ ListUsersByEmail(r)
        \/ CreateUser(r)
        \/ CreateUserError(r)
        \/ UpdateUserById(r)
        \/ UpdateUserByIdError(r)
        \/ StoreCallRejects(r)

SpecSeq == InitSeq /\ [][NextSeq]_vars

(* SpecVerify: direct calls of verifyFirebaseIdToken, one after the other. *)

ProjectIds == {projectId, otherProjectId}

\* Tokens for either project, with matching and with mismatching issuer and
\* audience, and with an issuer that is the bare project id.
VerifyTokens ==
    {Token(100, signed, iss, aud, expired, someClaims) :
        signed \in BOOLEAN, expired \in BOOLEAN,
        iss \in {Issuer(projectId), Issuer(otherProjectId), projectId},
        aud \in ProjectIds}

\* verifyFirebaseIdToken(idToken, project), as the unit tests call it.
CallVerify(r) ==
    /\ pc[r] = "idle"
    /\ \A q \in Runs : q < r => pc[q] = "done"
    /\ \E idToken \in VerifyTokens : \E project \in ProjectIds :
          /\ req' = [req EXCEPT ![r] = [idToken |-> idToken, projectId |-> project]]
          /\ verification' = [verification EXCEPT ![r] = verifyFirebaseIdToken(idToken, project)]
    /\ GetKeySet(r, 0)
    /\ via' = [via EXCEPT ![r] = "verify"]
    /\ pc' = [pc EXCEPT ![r] = "done"]
    /\ UNCHANGED <<users, nextId, claims, user, calls, result, response, users0, clients, authxVars>>

InitVerify == InitWith({<<>>})

NextVerify == \E r \in Runs : CallVerify(r)

SpecVerify == InitVerify /\ [][NextVerify]_vars

(* SpecAuthx: one mounted Authx component and its user.                    *)

NextAuthx ==
    \/ \E v \in LocalPhones : setLocalPhone(v)
    \/ AutoSendTimer
    \/ SendCodeButton
    \/ ResendCodeButton
    \/ EnsureRecaptchaResolves
    \/ SignInResolves
    \/ \E at \in {"ensureRecaptcha", "signInWithPhoneNumber"} : SendRejects(at)
    \/ \E idx \in 0..(OtpBoxes - 1) : \E value \in OtpChangeValues : onOtpChange(idx, value)
    \/ \E idx \in 0..(OtpBoxes - 1) : \E text \in OtpPasteTexts : onOtpPaste(idx, text)
    \/ \E code \in OtpCredentialCodes : WebOtpResolves(code)
    \/ VerifyButton
    \/ ConfirmResolves
    \/ GetIdTokenResolves
    \/ FetchResolves
    \/ ResJsonSettles
    \/ \E at \in {"confirm", "getIdToken", "fetch"} : VerifyRejects(at)

SpecAuthx == InitVerify /\ [][NextAuthx]_vars

\* The browser fires a pending timer, and every awaited call settles: it
\* resolves or it rejects.
EnsureRecaptchaSettles == EnsureRecaptchaResolves \/ SendRejects("ensureRecaptcha")
SignInSettles == SignInResolves \/ SendRejects("signInWithPhoneNumber")
ConfirmSettles == ConfirmResolves \/ VerifyRejects("confirm")
GetIdTokenSettles == GetIdTokenResolves \/ VerifyRejects("getIdToken")
FetchSettles == FetchResolves \/ VerifyRejects("fetch")

FairSpecAuthx ==
    /\ SpecAuthx
    /\ WF_vars(AutoSendTimer)
    /\ WF_vars(EnsureRecaptchaSettles) /\ WF_vars(SignInSettles)
    /\ WF_vars(ConfirmSettles) /\ WF_vars(GetIdTokenSettles)
    /\ WF_vars(FetchSettles) /\ WF_vars(ResJsonSettles)


-----------------------------------------------------------------------------
(* What the properties below read off a state.                             *)

\* Run r has entered ensureSupabaseUser.
Entered(r) ==
    \/ pc[r] \in {"listPhone", "listEmail", "createUser", "updateUserById"}
    \/ result[r].kind /= "pending"

Elements(a) == {a[i] : i \in DOMAIN a}

AccountById(listing, id) == listing[IndexOfId(listing, id)]

HasId(listing, id) == \E i \in DOMAIN listing : listing[i].id = id

\* The accounts of a listing whose phone is exactly p.
WithPhone(listing, p) == {i \in DOMAIN listing : Get(listing[i], "phone") = p}

\* The accounts of a listing whose email is e up to letter case.
WithEmail(listing, e) ==
    {i \in DOMAIN listing :
        "email" \in DOMAIN listing[i] /\ toLowerCase(listing[i].email) = toLowerCase(e)}

\* The store calls of run r that the store answered with `outcome`.
CallsOf(r, op, outcome) ==
    {k \in DOMAIN calls[r] : calls[r][k].op = op /\ calls[r][k].outcome = outcome}

\* No store call of run r was rejected or answered with an error.
NoFault(r) == \A k \in DOMAIN calls[r] : calls[r][k].outcome = "ok"

-----------------------------------------------------------------------------
(* C1: idempotent reconciliation.                                          *)

\* The case of C1: the store started without an account matching the claims,
\* the first call (run 1) created one and returned it with every store call
\* answered, and the second call (run 2) carries the same claims, which hold
\* a subject and a phone number.
C1_TwoCallsSameClaims ==
    /\ Entered(1) /\ Entered(2)
    /\ claims[2] = claims[1]
    /\ Truthy(Uid(claims[1]))
    /\ Truthy(Get(claims[1], "phone_number"))
    /\ WithPhone(users0, claims[1].phone_number) = {}
    /\ Truthy(Get(claims[1], "email")) => WithEmail(users0, claims[1].email) = {}
    /\ result[1].kind = "return"
    /\ NoFault(1) /\ NoFault(2)

\* C1: two sequential ensureSupabaseUser calls with the same claims (a subject
\* and a phone number), from a store with no matching account: the second call
\* finds the account the first one created instead of creating another, both
\* return the same store id, the store holds one account for the phone, and
\* the roles are exactly <<authenticated>> after each call.
C1_IdempotentReconciliation ==
    C1_TwoCallsSameClaims =>
        /\ pc[2] /= "createUser"
        /\ RolesOf(result[1].user) = <<"authenticated">>
        /\ result[2].kind = "return" =>
              /\ result[2].user.id = result[1].user.id
              /\ Cardinality(WithPhone(users, claims[1].phone_number)) = 1
              /\ RolesOf(result[2].user) = <<"authenticated">>

\* The two calls of C1 on a store where the lookup sees every account: the
\* second call returned the account of the first.
C1_SameAccountTwice ==
    /\ C1_TwoCallsSameClaims
    /\ result[2].kind = "return"
    /\ result[2].user.id = result[1].user.id

-----------------------------------------------------------------------------
(* C2: one account per subject.                                            *)

\* Every call made so far has ended, and ended by returning an account.
AllCallsReturned ==
    \A r \in Runs : pc[r] = "idle" \/ (pc[r] = "done" /\ result[r].kind = "return")

\* The accounts of the store bound to the subject s.
BoundTo(s) ==
    {i \in DOMAIN users : Get(MetaOf(users[i], "user_metadata"), "firebase_uid") = s}

\* C2: after any sequence of sequential successful ensureSupabaseUser calls
\* the store holds at most one account for each subject the calls carried.
C2_OneAccountPerSubject ==
    AllCallsReturned =>
        \A r \in Runs : pc[r] = "done" => Cardinality(BoundTo(Uid(claims[r]))) <= 1

-----------------------------------------------------------------------------
(* C3: concurrent first login.                                             *)

\* C3: nothing in the core stands between a lookup that found no account and
\* the createUser that follows it: a run whose lookups came back empty can
\* always go on to createUser, whatever the other runs are doing.
C3_NoMutualExclusion ==
    \A r \in Runs : pc[r] = "createUser" => user[r] = <<>> /\ ENABLED CreateUser(r)

\* Two handler runs for the same identity, unknown to the store at the start:
\* both lookups found nothing, both runs called createUser, and the store
\* now holds two accounts for the phone.
C3_BothCreate ==
    \E r \in Runs : \E q \in Runs \ {r} :
        /\ via[r] = "handler" /\ via[q] = "handler"
        /\ Entered(r) /\ Entered(q)
        /\ claims[r] = claims[q]
        /\ Truthy(Uid(claims[r]))
        /\ Truthy(Get(claims[r], "phone_number"))
        /\ WithPhone(users0, claims[r].phone_number) = {}
        /\ CallsOf(r, "listUsers", "ok") /= {} /\ CallsOf(q, "listUsers", "ok") /= {}
        /\ CallsOf(r, "createUser", "ok") /= {} /\ CallsOf(q, "createUser", "ok") /= {}
        /\ response[r][1].status = 200 /\ response[q][1].status = 200
        /\ Cardinality(WithPhone(users, claims[r].phone_number)) = 2

-----------------------------------------------------------------------------
(* C4: lookup precedence.                                                  *)

\* The ids of the accounts at the positions `at` of a listing.
IdsAt(listing, at) == {listing[i].id : i \in at}

\* The first call (run 1) and nothing else: the store is the one it started
\* with until run 1 writes.
OnlyFirstCall == Entered(1) /\ NoFault(1) /\ \A q \in Runs \ {1} : pc[q] = "idle"

\* The case of C4: the claims of run 1 carry a subject, the phone of an
\* existing account A and an email matching a different existing account B.
C4_PhoneOfA_EmailOfB ==
    /\ OnlyFirstCall
    /\ Truthy(Uid(claims[1]))
    /\ Truthy(Get(claims[1], "phone_number"))
    /\ Truthy(Get(claims[1], "email"))
    /\ \E a \in WithPhone(users0, claims[1].phone_number) :
       \E b \in WithEmail(users0, claims[1].email) : users0[a].id /= users0[b].id

\* C4: with the phone of account A and the email of another account B in the
\* claims, ensureSupabaseUser targets A after the phone lookup (it neither
\* goes on to the email lookup nor to createUser), returns A, and leaves every
\* other account, B included, as it was.
C4_PhonePrecedence ==
    C4_PhoneOfA_EmailOfB =>
        LET idsA == IdsAt(users0, WithPhone(users0, claims[1].phone_number))
        IN /\ pc[1] \notin {"listEmail", "createUser"}
           /\ pc[1] = "updateUserById" => user[1][1].id \in idsA
           /\ pc[1] = "done" =>
                /\ result[1].kind = "return"
                /\ result[1].user.id \in idsA
                /\ Len(users) = Len(users0)
                /\ \A i \in DOMAIN users0 :
                      users0[i].id /= result[1].user.id => users[i] = users0[i]

-----------------------------------------------------------------------------
(* C5: the phone lookup covers all accounts.                               *)

\* Run r is past its phone lookup, every store call was answered, and no
\* other run is between its start and its end: the store is what it was
\* when r listed it.
PastPhoneLookupAlone(r) ==
    /\ pc[r] \in {"listEmail", "createUser", "updateUserById"}
    /\ NoFault(r)
    /\ \A q \in Runs \ {r} : pc[q] \in {"idle", "done"}
    /\ Truthy(Get(claims[r], "phone_number"))

\* C5: when the claims carry a phone number and the store holds an account
\* with exactly that phone, the phone lookup makes that account the target,
\* wherever it stands in the listing: the run neither goes on to the email
\* lookup nor to createUser.
C5_PhoneLookupCoversAllAccounts ==
    \A r \in Runs :
        (PastPhoneLookupAlone(r) /\ WithPhone(users, claims[r].phone_number) /= {}) =>
            /\ pc[r] = "updateUserById"
            /\ user[r][1].id \in IdsAt(users, WithPhone(users, claims[r].phone_number))

-----------------------------------------------------------------------------
(* C6: the email lookup.                                                   *)

\* Run r is past its lookups, the phone lookup did not run or found nothing,
\* and the claims carry an email.
PastEmailLookupAlone(r) ==
    /\ pc[r] \in {"createUser", "updateUserById"}
    /\ NoFault(r)
    /\ \A q \in Runs \ {r} : pc[q] \in {"idle", "done"}
    /\ Truthy(Get(claims[r], "email"))
    /\ CallsOf(r, "listUsers", "ok") /= {}
    /\ calls[r][Len(calls[r])].args = [page |-> 1, perPage |-> 200]

\* C6: when the phone claim is absent or matched nothing and the claims carry
\* an email, an existing account whose email equals it up to letter case
\* becomes the target and createUser is not called; an account without an
\* email never becomes the target.
C6_EmailLookup ==
    \A r \in Runs :
        PastEmailLookupAlone(r) =>
            /\ WithEmail(users, claims[r].email) /= {} =>
                  /\ pc[r] = "updateUserById"
                  /\ user[r][1].id \in IdsAt(users, WithEmail(users, claims[r].email))
            /\ WithEmail(users, claims[r].email) = {} => pc[r] = "createUser"

-----------------------------------------------------------------------------
(* C7: role union.                                                         *)

NoDuplicates(a) == \A i \in DOMAIN a : \A j \in DOMAIN a : a[i] = a[j] => i = j

\* Run r's updateUserById is answered in this step: the roles the store then
\* holds for the account are the roles it held before, with authenticated.
C7_UpdateStep(r) ==
    (pc[r] = "updateUserById" /\ pc'[r] = "done" /\ result'[r].kind = "return") =>
        LET id == result'[r].user.id
            before == RolesOf(AccountById(users, id))
            after == RolesOf(AccountById(users', id))
        IN /\ Elements(after) = Elements(before) \cup {"authenticated"}
           /\ NoDuplicates(after)
           /\ RolesOf(result'[r].user) = after

\* Every account a run returned (created or updated) has the role.
C7_ReturnedAreAuthenticated ==
    \A r \in Runs :
        (pc[r] = "done" /\ result[r].kind = "return") =>
            "authenticated" \in Elements(RolesOf(AccountById(users, result[r].user.id)))

\* C7: an update leaves the set union of the account's previous roles and
\* {authenticated}, each role once; and after any sequence of reconciliations
\* every account the core created or updated has the authenticated role.
C7_RoleUnion ==
    /\ []C7_ReturnedAreAuthenticated
    /\ [][\A r \in Runs : C7_UpdateStep(r)]_vars

\* Two runs updated the account that had the roles <<admin>>: it has
\* <<admin, authenticated>>, authenticated once.
C7_AdminKeptTwice ==
    \E r \in Runs : \E q \in Runs \ {r} :
        /\ CallsOf(r, "updateUserById", "ok") /= {}
        /\ CallsOf(q, "updateUserById", "ok") /= {}
        /\ result[r].user.id = accountA.id /\ result[q].user.id = accountA.id
        /\ RolesOf(accountA) = <<"admin">>
        /\ RolesOf(AccountById(users, accountA.id)) = <<"admin", "authenticated">>

-----------------------------------------------------------------------------
(* C8: a missing subject fails fast.                                       *)

MissingSubject == Thrown("Missing subject in token")

NeitherSubNorUserId(c) == "sub" \notin DOMAIN c /\ "user_id" \notin DOMAIN c

\* A run whose claims carry neither sub nor user_id has ended with the
\* missing-subject error and has made no store call.
C8_FailedBeforeAnyCall ==
    \A r \in Runs :
        (Entered(r) /\ NeitherSubNorUserId(claims[r])) =>
            result[r] = MissingSubject /\ calls[r] = <<>>

\* The step in which such a run enters and fails leaves the store as it was.
C8_EntryStep(r) ==
    (~Entered(r) /\ Entered(r)' /\ NeitherSubNorUserId(claims'[r])) =>
        users' = users /\ nextId' = nextId

\* C8: with neither sub nor user_id in the claims, ensureSupabaseUser fails
\* with the missing-subject error before any listUsers, createUser or
\* updateUserById call, and the store is unchanged.
C8_MissingSubjectFailsFast ==
    /\ []C8_FailedBeforeAnyCall
    /\ [][\A r \in Runs : C8_EntryStep(r)]_vars

\* A run with a phone claim and an email claim but no subject failed so, on a
\* store that holds accounts matching both.
C8_NoSubjectWithPhone ==
    \E r \in Runs :
        /\ Entered(r) /\ NeitherSubNorUserId(claims[r])
        /\ Get(claims[r], "phone_number") = phone1
        /\ Get(claims[r], "email") = emailLower
        /\ result[r] = MissingSubject /\ calls[r] = <<>>
        /\ users = <<accountA, accountB>>

-----------------------------------------------------------------------------
(* C9: subject resolution.                                                 *)

\* A claim supplies a subject when it is a non-empty string.
Supplies(v) == v /= undefined /\ v /= <<>>

\* sub when it supplies a subject, otherwise user_id.
ResolvedSubject(c) ==
    IF Supplies(Get(c, "sub")) THEN c.sub ELSE Get(c, "user_id")

SuppliesSubject(c) == Supplies(Get(c, "sub")) \/ Supplies(Get(c, "user_id"))

\* C9: reconciliation fails with the missing-subject error if and only if
\* neither sub nor user_id supplies a subject; otherwise the subject is sub
\* when sub supplies one, else user_id: the returned account's firebase_uid
\* and the uid the handler reports are that value.
C9_SubjectResolution ==
    \A r \in Runs :
        Entered(r) =>
            /\ (result[r] = MissingSubject) <=> ~SuppliesSubject(claims[r])
            /\ result[r].kind = "return" =>
                    result[r].user.user_metadata.firebase_uid = ResolvedSubject(claims[r])
            /\ (response[r] /= <<>> /\ response[r][1].status = 200) =>
                    response[r][1].body.uid = ResolvedSubject(claims[r])

\* The subject came from user_id, sub being absent.
C9_SubjectFromUserId ==
    \E r \in Runs :
        /\ "sub" \notin DOMAIN claims[r]
        /\ result[r].kind = "return"
        /\ result[r].user.user_metadata.firebase_uid = u2
        /\ response[r] /= <<>> /\ response[r][1].body.uid = u2

-----------------------------------------------------------------------------
(* C10: account creation.                                                  *)

\* A phone or email claim is present when it is a non-empty string.
Present(v) == v /= undefined /\ v /= <<>>

IfPresent(v) == IF Present(v) THEN v ELSE undefined

\* What the claim says createUser is called with for the claims c.
C10_Expected(c) ==
    [email |-> IfPresent(Get(c, "email")),
     phone |-> IfPresent(Get(c, "phone_number")),
     email_confirm |-> Present(Get(c, "email")),
     phone_confirm |-> Present(Get(c, "phone_number")),
     user_metadata |-> [firebase_uid |-> ResolvedSubject(c), provider |-> "firebase-phone"],
     app_metadata |-> [roles |-> <<"authenticated">>]]

CreateCalls(r) == {k \in DOMAIN calls[r] : calls[r][k].op = "createUser"}

\* C10: a run whose lookups found no target calls createUser once, with the
\* phone and the email of the claims when present and absent otherwise,
\* phone_confirm and email_confirm true iff the claim was present,
\* user_metadata exactly {firebase_uid, provider} and roles exactly
\* [authenticated]; it returns the account the store created.
C10_AccountCreation ==
    \A r \in Runs :
        /\ \A k \in CreateCalls(r) :
              /\ calls[r][k].args = C10_Expected(claims[r])
              /\ k = Len(calls[r])
        /\ pc[r] = "createUser" => user[r] = <<>> /\ CreateCalls(r) = {}
        /\ (pc[r] = "done" /\ result[r].kind = "return"
                /\ CallsOf(r, "updateUserById", "ok") = {}) =>
              /\ Cardinality(CreateCalls(r)) = 1
              /\ LET created == result[r].user
                     sent == C10_Expected(claims[r])
                 IN /\ ~HasId(users0, created.id) /\ HasId(users, created.id)
                    /\ Get(created, "phone") = sent.phone
                    /\ Get(created, "email") = sent.email
                    /\ created.user_metadata = sent.user_metadata
                    /\ created.app_metadata = sent.app_metadata

\* A run with a phone claim and no email claim created an account: the call
\* carried phone_confirm true and email_confirm false.
C10_CreatedPhoneOnly ==
    \E r \in Runs :
        /\ pc[r] = "done" /\ result[r].kind = "return"
        /\ Cardinality(CreateCalls(r)) = 1
        /\ Get(claims[r], "phone_number") = phone1 /\ "email" \notin DOMAIN claims[r]
        /\ \A k \in CreateCalls(r) :
              calls[r][k].args.phone_confirm /\ ~calls[r][k].args.email_confirm
        /\ Get(result[r].user, "phone") = phone1

-----------------------------------------------------------------------------
(* C11: metadata merge on update.                                          *)

ProvenanceKeys == {"firebase_uid", "provider"}

\* Run r's updateUserById is answered in this step: the user_metadata the
\* store then holds, and the run returns, is the one it held before with the
\* two provenance keys overwritten.
C11_UpdateStep(r) ==
    (pc[r] = "updateUserById" /\ pc'[r] = "done" /\ result'[r].kind = "return") =>
        LET id == result'[r].user.id
            before == MetaOf(AccountById(users, id), "user_metadata")
            after == MetaOf(AccountById(users', id), "user_metadata")
        IN /\ DOMAIN after = DOMAIN before \cup ProvenanceKeys
           /\ after.firebase_uid = ResolvedSubject(claims[r])
           /\ after.provider = "firebase-phone"
           /\ \A k \in DOMAIN before \ ProvenanceKeys : after[k] = before[k]
           /\ MetaOf(result'[r].user, "user_metadata") = after

\* C11: an update leaves the account's previous user_metadata with
\* firebase_uid and provider overwritten by the resolved subject and
\* 'firebase-phone'; every other metadata key keeps its value.
C11_MetadataMerge == [][\A r \in Runs : C11_UpdateStep(r)]_vars

\* The account with the metadata {name: Ann} was updated for the subject u1
\* and then for the subject u2: the name is kept, firebase_uid overwritten.
C11_AnnKeptUidOverwritten ==
    \E r \in Runs : \E q \in Runs \ {r} :
        /\ CallsOf(r, "updateUserById", "ok") /= {}
        /\ CallsOf(q, "updateUserById", "ok") /= {}
        /\ accountA.user_metadata = [name |-> "Ann"]
        /\ result[r].user.id = accountA.id
        /\ result[r].user.user_metadata.firebase_uid = u1
        /\ AccountById(users, accountA.id).user_metadata =
              [name |-> "Ann", firebase_uid |-> u2, provider |-> "firebase-phone"]

-----------------------------------------------------------------------------
(* C12: unsupported content type.                                          *)

\* The media type a content-type header value names: what stands before the
\* first semicolon, without the spaces around it.
BeforeSemicolon(s) ==
    LET semis == {i \in DOMAIN s : s[i] = ";"}
    IN IF semis = {} THEN s ELSE SubSeq(s, 1, Min(semis) - 1)

Trim(s) ==
    LET solid == {i \in DOMAIN s : s[i] /= " "}
    IN IF solid = {} THEN <<>>
       ELSE SubSeq(s, Min(solid), CHOOSE m \in solid : \A i \in solid : i <= m)

MediaType(s) == Trim(BeforeSemicolon(s))

\* The header is there and names the media type application/json.
IndicatesJson(ct) == ct /= undefined /\ MediaType(ct) = applicationJson

Unsupported == json(415, [ok |-> FALSE, error |-> "Unsupported content type"])

\* The step that answers 415 is the handler's first and leaves the store alone.
C12_RejectStep(r) ==
    (response[r] = <<>> /\ response'[r] = <<Unsupported>>) =>
        pc[r] = "idle" /\ users' = users /\ nextId' = nextId

C12_RejectedAtOnce == [][\A r \in Runs : C12_RejectStep(r)]_vars

\* C12: every request whose content-type header is missing or does not name
\* application/json has been answered 415 {ok:false, error:'Unsupported
\* content type'}, with no body read, no token verified and no store call.
C12_UnsupportedContentType ==
    \A r \in Runs :
        ("contentType" \in DOMAIN req[r] /\ ~IndicatesJson(req[r].contentType)) =>
            /\ pc[r] = "done" /\ response[r] = <<Unsupported>>
            /\ "json" \notin DOMAIN req[r]
            /\ verification[r] = Pending
            /\ result[r] = Pending /\ calls[r] = <<>>

\* A request without content-type header and one with text/plain got the 415.
C12_MissingAndTextPlain ==
    \E r \in Runs : \E q \in Runs \ {r} :
        /\ req[r] = [contentType |-> undefined] /\ response[r] = <<Unsupported>>
        /\ req[q] = [contentType |-> textPlain] /\ response[q] = <<Unsupported>>

-----------------------------------------------------------------------------
(* C13: invalid payload.                                                   *)

\* The body did not parse, is no object with a string idToken, or its idToken
\* has fewer than 100 characters.
C13_BadBody(settled) ==
    \/ settled = JsonRejects
    \/ settled.type /= "object"
    \/ "idToken" \notin DOMAIN settled.value
    \/ settled.value.idToken.type /= "string"
    \/ settled.value.idToken.value.length <= 99

\* Run r has read the body of a JSON-typed request. A run that has answered
\* holds the content type it was sent; one that passed the gate holds the body.
C13_JsonTyped(r) ==
    /\ "json" \in DOMAIN req[r]
    /\ "contentType" \in DOMAIN req[r] => IndicatesJson(req[r].contentType)

InvalidPayloadResponse == json(400, [ok |-> FALSE, error |-> "Invalid payload"])

\* C13: a JSON-typed request whose body fails to parse, is no object with a
\* string idToken, or has an idToken of fewer than 100 characters is answered
\* 400 {ok:false, error:'Invalid payload'} and verifyFirebaseIdToken is never
\* called; every other body, one with an idToken of exactly 100 characters
\* included, passes the gate.
C13_InvalidPayload ==
    \A r \in Runs :
        C13_JsonTyped(r) =>
            IF C13_BadBody(req[r].json)
            THEN /\ pc[r] = "done" /\ response[r] = <<InvalidPayloadResponse>>
                 /\ verification[r] = Pending /\ result[r] = Pending /\ calls[r] = <<>>
            ELSE pc[r] = "verify" /\ response[r] = <<>>

\* Run r's request is JSON-typed and its body an object with a string idToken.
C13_JsonTypedWithToken(r) ==
    /\ C13_JsonTyped(r)
    /\ req[r].json.type = "object" /\ "idToken" \in DOMAIN req[r].json.value
    /\ req[r].json.value.idToken.type = "string"

\* One run was answered 400 for an idToken of 99 characters while another,
\* with an idToken of 100 characters, stands before the verification.
C13_NinetyNineAndHundred ==
    \E r \in Runs : \E q \in Runs \ {r} :
        /\ C13_JsonTypedWithToken(r) /\ C13_JsonTypedWithToken(q)
        /\ req[r].json.value.idToken.value.length = 99
        /\ response[r] = <<InvalidPayloadResponse>>
        /\ req[q].json.value.idToken.value.length = 100
        /\ pc[q] = "verify"

-----------------------------------------------------------------------------
(* C14: verification failure at the handler.                               *)

InvalidToken == json(401, [ok |-> FALSE, error |-> "Invalid or expired Firebase ID token"])

\* A run whose verification failed was answered the one 401 and never
\* entered ensureSupabaseUser.
C14_Answered401 ==
    \A r \in Runs :
        verification[r].kind = "throw" =>
            /\ pc[r] = "done" /\ response[r] = <<InvalidToken>>
            /\ ~Entered(r) /\ calls[r] = <<>>

\* The step in which the verification fails leaves the store as it was.
C14_FailStep(r) ==
    (verification[r] = Pending /\ verification'[r].kind = "throw") =>
        users' = users /\ nextId' = nextId

\* C14: whenever verifyFirebaseIdToken fails (signature, issuer, audience,
\* expiry, key fetch) the handler answers 401 {ok:false, error:'Invalid or
\* expired Firebase ID token'}, the same for every reason, ensureSupabaseUser
\* is not invoked and the store is unchanged.
C14_VerificationFailure ==
    /\ []C14_Answered401
    /\ [][\A r \in Runs : C14_FailStep(r)]_vars

\* Two runs failed verification for different reasons, one of them the key
\* fetch, and got the same response.
C14_TwoReasonsOneResponse ==
    \E r \in Runs : \E q \in Runs \ {r} :
        /\ verification[r] = Thrown("JWKSNoMatchingKey")
        /\ verification[q].kind = "throw" /\ verification[q] /= verification[r]
        /\ response[r] = <<InvalidToken>> /\ response[q] = response[r]

-----------------------------------------------------------------------------
(* C15: reconciliation failure at the handler.                             *)

InternalError == json(500, [ok |-> FALSE, error |-> "Internal error"])

\* C15: whenever the token verified but ensureSupabaseUser failed (no
\* subject, createUser or updateUserById reporting an error, a store call
\* throwing) the handler answers 500 {ok:false, error:'Internal error'}: the
\* same body for every reason, with none of the error's text.
C15_ReconciliationFailure ==
    \A r \in Runs :
        (via[r] = "handler" /\ verification[r].kind = "return" /\ result[r].kind = "throw") =>
            /\ pc[r] = "done" /\ response[r] = <<InternalError>>
            /\ response[r][1].body.error /= result[r].message

FailureReasons ==
    {"Missing subject in token", "Failed to create user", "Failed to update user",
     "store call rejected"}

\* Two runs failed for different reasons and got the same 500.
C15_TwoReasonsOneResponse ==
    \E r \in Runs : \E q \in Runs \ {r} :
        /\ result[r] = Thrown("Failed to create user")
        /\ result[q].kind = "throw" /\ result[q].message \in FailureReasons
        /\ result[q] /= result[r]
        /\ response[r] = <<InternalError>> /\ response[q] = response[r]

-----------------------------------------------------------------------------
(* C16: the success response.                                              *)

\* The claim, or null when the claims do not carry it.
OrNull(c, k) == IF k \in DOMAIN c THEN c[k] ELSE null

\* C16: when the token verified and reconciliation returned an account, the
\* handler answers 200 with ok true, uid the resolved subject, phoneNumber and
\* email the claims or null when absent, supabaseUserId the id of the
\* returned account, and the fixed note.
C16_SuccessResponse ==
    \A r \in Runs :
        (via[r] = "handler" /\ result[r].kind = "return") =>
            /\ pc[r] = "done" /\ verification[r].kind = "return"
            /\ response[r] =
                  <<[status |-> 200,
                     headers |-> [content_type |-> "application/json",
                                  cache_control |-> "no-store"],
                     body |-> [ok |-> TRUE,
                               uid |-> ResolvedSubject(claims[r]),
                               phoneNumber |-> OrNull(claims[r], "phone_number"),
                               email |-> OrNull(claims[r], "email"),
                               supabaseUserId |-> result[r].user.id,
                               note |-> "Verified Firebase token and ensured Supabase user exists."]]>>

\* A token with user_id, an email and no phone was answered 200 with the
\* subject from user_id, phoneNumber null and the id of the account found.
C16_UserIdEmailNoPhone ==
    \E r \in Runs :
        /\ response[r] /= <<>> /\ response[r][1].status = 200
        /\ "sub" \notin DOMAIN claims[r]
        /\ response[r][1].body.uid = u2
        /\ response[r][1].body.phoneNumber = null
        /\ response[r][1].body.email = emailLower
        /\ response[r][1].body.supabaseUserId = accountB.id

-----------------------------------------------------------------------------
(* C17: no escaping exception.                                             *)

Statuses == {200, 400, 401, 415, 500}

\* Some step of run r.
StepOf(r) ==
    \/ Receive(r) \/ ReadJson(r) \/ Verify(r) \/ VerifyKeyFetchFails(r)
    \/ ListUsersByPhone(r) \/ ListUsersByEmail(r)
    \/ CreateUser(r) \/ CreateUserError(r)
    \/ UpdateUserById(r) \/ UpdateUserByIdError(r) \/ StoreCallRejects(r)

\* A handler run that has ended has returned one response with one of the
\* five statuses; one that has not ended has returned none and can go on.
C17_OneResponse ==
    \A r \in Runs :
        via[r] = "handler" =>
            IF pc[r] = "done"
            THEN Len(response[r]) = 1 /\ response[r][1].status \in Statuses
            ELSE response[r] = <<>> /\ ENABLED StepOf(r)

\* A response, once returned, stays the run's response.
C17_ResponseStep(r) == response[r] /= <<>> => response'[r] = response[r]

\* C17: whatever the request and however the collaborators behave (json()
\* rejecting, the verifier throwing, store calls throwing or reporting
\* errors), every handler invocation ends by returning exactly one response
\* with status 200, 400, 401, 415 or 500; it never ends without one.
C17_NoEscapingException ==
    /\ []C17_OneResponse
    /\ [][\A r \in Runs : C17_ResponseStep(r)]_vars

\* One run's json() rejected and it was answered 400; another run's store
\* call threw and it was answered 500.
C17_RejectionsAnswered ==
    \E r \in Runs : \E q \in Runs \ {r} :
        /\ "json" \in DOMAIN req[r] /\ req[r].json = JsonRejects
        /\ pc[r] = "done" /\ Len(response[r]) = 1 /\ response[r][1].status = 400
        /\ CallsOf(q, "createUser", "rejected") /= {}
        /\ pc[q] = "done" /\ Len(response[q]) = 1 /\ response[q][1].status = 500

-----------------------------------------------------------------------------
(* C18: step ordering within a request.                                    *)

PhoneLookupCall == Call("listUsers", <<>>, "ok")
EmailLookupCall == Call("listUsers", [page |-> 1, perPage |-> 200], "ok")

\* The place of a store call in ensureSupabaseUser: the phone lookup, the
\* email lookup, the write.
Rank(call) ==
    IF call.op = "listUsers" THEN (IF call.args = <<>> THEN 1 ELSE 2) ELSE 3

\* In a handler run the reconciler is entered, and the store called, only
\* after a successful verification; the store calls come in the order phone
\* lookup, email lookup, write, the phone lookup first when there is a phone
\* claim.
C18_Ordered ==
    \A r \in Runs :
        via[r] = "handler" =>
            /\ (Entered(r) \/ calls[r] /= <<>>) => verification[r].kind = "return"
            /\ \A i \in DOMAIN calls[r] : \A j \in DOMAIN calls[r] :
                  i < j => Rank(calls[r][i]) < Rank(calls[r][j])
            /\ (calls[r] /= <<>> /\ Truthy(Get(claims[r], "phone_number"))) =>
                  Rank(calls[r][1]) = 1

\* The verification of run r settles in this step: both gates were passed
\* before it, and no response had been returned.
C18_VerifyStep(r) ==
    (verification[r] = Pending /\ verification'[r] /= Pending) =>
        /\ pc[r] = "verify" /\ response[r] = <<>>
        /\ "json" \in DOMAIN req[r] /\ ~C13_BadBody(req[r].json)

\* C18: in every handler run ensureSupabaseUser, and so every store call,
\* starts only after verifyFirebaseIdToken returned successfully, which starts
\* only after the content-type and payload gates passed; the phone lookup
\* precedes the email lookup and both precede the create or update.
C18_StepOrdering ==
    /\ []C18_Ordered
    /\ [][\A r \in Runs : C18_VerifyStep(r)]_vars

\* A handler run went through the verification, the phone lookup, the email
\* lookup and createUser, in this order.
C18_AllSteps ==
    \E r \in Runs :
        /\ via[r] = "handler" /\ verification[r].kind = "return"
        /\ Len(calls[r]) = 3
        /\ calls[r][1] = PhoneLookupCall /\ calls[r][2] = EmailLookupCall
        /\ calls[r][3].op = "createUser"
        /\ response[r] /= <<>> /\ response[r][1].status = 200

-----------------------------------------------------------------------------
(* C19: no-store on every response.                                        *)

HasHeader(resp, name, value) ==
    name \in DOMAIN resp.headers /\ resp.headers[name] = value

\* C19: every response the handler returns, whatever its status, carries
\* cache-control: no-store and content-type: application/json.
C19_NoStoreOnEveryResponse ==
    \A r \in Runs :
        \A i \in DOMAIN response[r] :
            /\ response[r][i].status \in Statuses
            /\ HasHeader(response[r][i], "cache_control", "no-store")
            /\ HasHeader(response[r][i], "content_type", "application/json")

\* The statuses of the responses returned so far.
StatusesReturned == {response[r][1].status : r \in {q \in Runs : response[q] /= <<>>}}

\* A success and an error response were returned, both with the two headers.
C19_SuccessAndError ==
    /\ 200 \in StatusesReturned
    /\ StatusesReturned \cap {400, 401, 415, 500} /= {}
    /\ \A r \in Runs : response[r] /= <<>> /\ HasHeader(response[r][1], "cache_control", "no-store")

-----------------------------------------------------------------------------
(* C20: issuer and audience exactness.                                     *)

\* The token's issuer and audience are exactly the ones of the project p.
C20_IssuedFor(token, p) ==
    /\ token.payload.iss = <<"https://securetoken.google.com/">> \o p
    /\ token.payload.aud = p

\* C20: verifyFirebaseIdToken(token, projectId) returns claims only when the
\* token's issuer is exactly https://securetoken.google.com/{projectId} and
\* its audience exactly projectId, for the projectId of that call; a correctly
\* signed token with another issuer or audience is rejected, and a correctly
\* signed, unexpired token issued for the project is returned with its claims.
C20_IssuerAudienceExactness ==
    \A r \in Runs :
        (via[r] = "verify" /\ pc[r] = "done") =>
            LET token == req[r].idToken
                p == req[r].projectId
            IN /\ verification[r].kind \in {"return", "throw"}
               /\ verification[r].kind = "return" =>
                     C20_IssuedFor(token, p) /\ verification[r].payload = token.payload
               /\ (token.signed /\ ~C20_IssuedFor(token, p)) =>
                     verification[r].kind = "throw"
               /\ (token.signed /\ ~token.expired /\ C20_IssuedFor(token, p)) =>
                     verification[r].kind = "return"

\* The same correctly signed token of the other project was rejected by a
\* call for this project and returned by a call for the other project.
C20_SameTokenTwoProjects ==
    \E r \in Runs : \E q \in Runs \ {r} :
        /\ via[r] = "verify" /\ via[q] = "verify"
        /\ req[r].idToken = req[q].idToken /\ req[r].idToken.signed
        /\ req[r].projectId = projectId /\ verification[r].kind = "throw"
        /\ req[q].projectId = otherProjectId /\ verification[q].kind = "return"

-----------------------------------------------------------------------------
(* C21: generic verifier failure.                                          *)

\* C21: whatever check fails (signature, issuer, audience, expiry),
\* verifyFirebaseIdToken reports the same failure to its caller: two failed
\* calls cannot be told apart by what they threw.
C21_GenericVerifierFailure ==
    \A r \in Runs : \A q \in Runs :
        (/\ via[r] = "verify" /\ via[q] = "verify"
         /\ verification[r].kind = "throw" /\ verification[q].kind = "throw") =>
            verification[r] = verification[q]

-----------------------------------------------------------------------------
(* C22: key set caching.                                                   *)

\* C22: across any sequence of verifyFirebaseIdToken calls in one process
\* the key set is constructed at most once, on first use, and every
\* verification works with that one.
C22_KeySetCaching ==
    /\ Cardinality(keySets) <= 1
    /\ \A r \in Runs : \A q \in Runs :
          (used[r].keySet /= 0 /\ used[q].keySet /= 0) => used[r].keySet = used[q].keySet
    /\ (\A r \in Runs : verification[r] = Pending) => keySets = {}

-----------------------------------------------------------------------------
(* C23: single store connection.                                           *)

\* The client makeAdminClient constructs for the configured options.
ConfiguredClient ==
    [url |-> supabaseUrl, serviceRoleKey |-> supabaseServiceRoleKey,
     autoRefreshToken |-> FALSE, persistSession |-> FALSE]

\* Building the handler constructed one client, with the configured url and
\* key; every handler run that entered ensureSupabaseUser passed that client.
C23_OneClient ==
    /\ Len(clients) <= 1
    /\ clients /= <<>> => clients = <<ConfiguredClient>>
    /\ \A r \in Runs :
          /\ via[r] = "handler" => Len(clients) = 1
          /\ (via[r] = "handler" /\ Entered(r)) => used[r].client = 1
          /\ ~Entered(r) => used[r].client = 0

\* Serving requests constructs no client.
C23_ServeStep == clients /= <<>> => clients' = clients

\* C23: makeAdminClient is called exactly once per buildVerifyRouteHandler
\* call, at build time, with the configured url and service role key; every
\* request the handler serves, concurrent ones included, passes that client
\* to ensureSupabaseUser and serving never constructs another.
C23_SingleStoreConnection ==
    /\ []C23_OneClient
    /\ [][C23_ServeStep]_vars

\* Two requests are inside ensureSupabaseUser at the same time, both with
\* the one client.
C23_TwoRequestsOneClient ==
    \E r \in Runs : \E q \in Runs \ {r} :
        /\ pc[r] \in {"listPhone", "listEmail", "createUser", "updateUserById"}
        /\ pc[q] \in {"listPhone", "listEmail", "createUser", "updateUserById"}
        /\ used[r].client = 1 /\ used[q].client = 1
        /\ Len(clients) = 1

-----------------------------------------------------------------------------
(* C24: auto-send.                                                         *)

\* C24: when the phone number is valid in step 'phone' and stays so, a
\* handleSend call is started at some point, whatever the user typed before
\* the 100 ms timer fired and without the send button being needed.
C24_AutoSend == <>[](step = "phone" /\ valid) => <>(sends /= EmptyBag)

\* The auto-send was armed, the timer is gone, and no send was ever started:
\* the state the component is left in when the number was edited within the
\* 100 ms.
C24_ArmedAndNeverSent ==
    /\ step = "phone" /\ valid /\ didAutoSendRef
    /\ timer = <<>> /\ sends = EmptyBag /\ ~sending /\ error = ""

-----------------------------------------------------------------------------
(* C25: auto-verify.                                                       *)

\* A handleVerify call for the code was started in this step.
VerifyInvoked(code) ==
    \/ /\ confirmationRef /= <<>>
       /\ verifies' = verifies (+) One([at |-> "confirm",
                                        confirmation |-> confirmationRef[1],
                                        code |-> code])
    \/ /\ confirmationRef = <<>>
       /\ error' = "No confirmation in memory. Please resend the code."

\* The boxes come to hold six digits in this step.
C25_SixDigitsArrive == otpValue' /= otpValue /\ Len(otpValue') = 6

\* A handleVerify call ends in this step.
VerifyEnds == ResJsonSettles \/ \E at \in {"confirm", "getIdToken", "fetch"} : VerifyRejects(at)

C25_Shown == step = "done" \/ error /= ""

\* C25: in the step in which the six boxes come to hold six digits (typed,
\* pasted or filled by Web OTP) a handleVerify call is started, no button
\* being pressed; no handleVerify call stays in flight for ever (calls keep
\* ending, or from some point on none is in flight); and at the end of a
\* call the component shows step 'done' or an error message.
C25_AutoVerify ==
    /\ [][C25_SixDigitsArrive => VerifyInvoked(otpValue')]_vars
    /\ [][VerifyEnds => C25_Shown']_vars
    /\ ([]<><<VerifyEnds>>_vars \/ <>[](verifies = EmptyBag))

\* Six digits were entered and the flow ended with success.
C25_SixDigitsThenDone ==
    /\ step = "done" /\ otpValue = code111111
    /\ verifies = EmptyBag /\ ~sending /\ error = ""

\* Six digits were entered and the flow ended with an error message.
C25_SixDigitsThenError ==
    /\ step = "otp" /\ otpValue = code111111
    /\ verifies = EmptyBag /\ ~sending /\ error = "Invalid or expired Firebase ID token"

-----------------------------------------------------------------------------
(* C26: one write per reconciliation.                                      *)

ListCalls(r) == {k \in DOMAIN calls[r] : calls[r][k].op = "listUsers"}

WriteCalls(r) == {k \in DOMAIN calls[r] : calls[r][k].op \in {"createUser", "updateUserById"}}

\* What the log of a call that returned looks like: one write, accepted and
\* last; the lookups the claims ask for and no more; a single lookup when
\* both claims are present only if the phone lookup found the account, which
\* is then updated.
C26_LogOfSuccess(r) ==
    LET log == calls[r]
        phone == Present(Get(claims[r], "phone_number"))
        email == Present(Get(claims[r], "email"))
    IN  /\ WriteCalls(r) = {Len(log)}
        /\ log[Len(log)].outcome = "ok"
        /\ Cardinality(ListCalls(r)) <= 2
        /\ (~phone /\ ~email) => ListCalls(r) = {} /\ log[Len(log)].op = "createUser"
        /\ (phone /= email) => Cardinality(ListCalls(r)) = 1
        /\ (phone /\ email) =>
              \/ Cardinality(ListCalls(r)) = 2
              \/ Cardinality(ListCalls(r)) = 1 /\ log[Len(log)].op = "updateUserById"

\* While a call is between its lookups and its write, `user` tells what the
\* lookups found: nothing before an email lookup and before createUser, the
\* target before updateUserById.
C26_TargetDecidesWrite(r) ==
    /\ pc[r] \in {"listEmail", "createUser"} => user[r] = <<>>
    /\ pc[r] = "updateUserById" => user[r] /= <<>>

\* A store call of run r in this step: a lookup that finds an account goes on
\* to updateUserById; createUser is called only where no lookup found one and
\* updateUserById only for the account a lookup found; no call follows a write.
C26_CallStep(r) ==
    calls'[r] /= calls[r] =>
        LET call == calls'[r][Len(calls'[r])]
        IN  /\ WriteCalls(r) = {}
            /\ (call.op = "listUsers" /\ call.outcome = "ok" /\ user'[r] /= <<>>)
                    => pc'[r] = "updateUserById"
            /\ call.op = "createUser" => user[r] = <<>>
            /\ call.op = "updateUserById" => user[r] /= <<>> /\ call.args.id = user[r][1].id

\* C26: every ensureSupabaseUser call that returns made exactly one write,
\* createUser when neither lookup found a target and updateUserById on the
\* found account otherwise, and at most two listUsers calls: none without
\* phone and email, one with only one of them or when the phone lookup found
\* the account.
C26_OneWritePerReconciliation ==
    /\ [](\A r \in Runs : /\ C26_TargetDecidesWrite(r)
                          /\ result[r].kind = "return" => C26_LogOfSuccess(r))
    /\ [][\A r \in Runs : C26_CallStep(r)]_vars

\* One run created after two lookups that found nothing, the other updated
\* after the phone lookup alone; each log holds one write.
C26_CreateAfterTwoUpdateAfterOne ==
    \E r \in Runs : \E q \in Runs \ {r} :
        /\ result[r].kind = "return" /\ result[q].kind = "return"
        /\ Cardinality(ListCalls(r)) = 2 /\ calls[r][3].op = "createUser"
        /\ Cardinality(ListCalls(q)) = 1 /\ calls[q][2].op = "updateUserById"
        /\ Present(Get(claims[q], "email"))

\* A run without phone and email created without any lookup.
C26_CreatedWithoutLookup ==
    \E r \in Runs :
        /\ result[r].kind = "return" /\ Len(calls[r]) = 1 /\ calls[r][1].op = "createUser"

\* A run whose phone lookup found nothing updated the account its email
\* lookup found.
C26_UpdatedAfterEmailLookup ==
    \E q \in Runs :
        /\ result[q].kind = "return"
        /\ Cardinality(ListCalls(q)) = 2 /\ calls[q][3].op = "updateUserById"

-----------------------------------------------------------------------------
(* C27: frame of an update.                                                *)

\* Run r's updateUserById is answered in this step. Accepted: the call
\* carried user_metadata and app_metadata and nothing else; the account keeps
\* its id, phone, email and every attribute other than the two metadata
\* objects; its app_metadata keeps every key other than roles; every other
\* account, and the listing order, is as before. Not accepted: the store is
\* as before.
C27_UpdateStep(r) ==
    (pc[r] = "updateUserById" /\ pc'[r] = "done") =>
        LET call == calls'[r][Len(calls'[r])]
            i == IndexOfId(users, call.args.id)
            before == users[i]
            after == users'[i]
        IN  IF result'[r].kind /= "return" THEN users' = users
            ELSE /\ call.op = "updateUserById"
                 /\ DOMAIN call.args.attrs = {"user_metadata", "app_metadata"}
                 /\ DOMAIN users' = DOMAIN users
                 /\ \A j \in DOMAIN users \ {i} : users'[j] = users[j]
                 /\ after.id = before.id
                 /\ Get(after, "phone") = Get(before, "phone")
                 /\ Get(after, "email") = Get(before, "email")
                 /\ DOMAIN after = DOMAIN before \cup {"user_metadata", "app_metadata"}
                 /\ \A k \in DOMAIN before \ {"user_metadata", "app_metadata"} :
                        after[k] = before[k]
                 /\ DOMAIN after.app_metadata = DOMAIN MetaOf(before, "app_metadata") \cup {"roles"}
                 /\ \A k \in DOMAIN MetaOf(before, "app_metadata") \ {"roles"} :
                        after.app_metadata[k] = before.app_metadata[k]
                 /\ result'[r].user = after

\* C27: an updateUserById call of ensureSupabaseUser carries only
\* user_metadata and app_metadata: the account's id, phone and email stay as
\* they were, its app_metadata keys other than roles keep their values, and
\* no other account of the store is modified.
C27_UpdateFrame == [][\A r \in Runs : C27_UpdateStep(r)]_vars

\* An account without a phone was found by email for claims that carry
\* phone1, and updated: it still has no phone.
C27_FoundByEmailPhoneUntouched ==
    \E r \in Runs :
        /\ result[r].kind = "return"
        /\ Len(calls[r]) = 3 /\ calls[r][3].op = "updateUserById"
        /\ Get(claims[r], "phone_number") = phone1
        /\ Get(result[r].user, "email") = emailLower
        /\ "phone" \notin DOMAIN AccountById(users, result[r].user.id)

\* The account with plan 'pro' was updated next to accountB: the plan is
\* kept and accountB is as it was.
C27_PlanKeptNeighbourUntouched ==
    \E r \in Runs :
        /\ users0 = <<accountA, accountB>>
        /\ result[r].kind = "return" /\ result[r].user.id = accountA.id
        /\ AccountById(users, accountA.id).app_metadata.plan = "pro"
        /\ AccountById(users, accountA.id).app_metadata.roles = <<"admin", "authenticated">>
        /\ AccountById(users, accountB.id) = accountB

-----------------------------------------------------------------------------
(* C28: provenance binding.                                                *)

\* Run r's ensureSupabaseUser returns in this step: the account it created
\* or updated is then stored, and returned, with firebase_uid the resolved
\* subject of the call and provider 'firebase-phone'.
C28_ReturnStep(r) ==
    (pc[r] /= "done" /\ pc'[r] = "done" /\ result'[r].kind = "return") =>
        LET target == AccountById(users', result'[r].user.id)
        IN  /\ SuppliesSubject(claims[r])
            /\ target.user_metadata.firebase_uid = ResolvedSubject(claims[r])
            /\ target.user_metadata.provider = "firebase-phone"
            /\ result'[r].user.user_metadata.firebase_uid = ResolvedSubject(claims[r])
            /\ result'[r].user.user_metadata.provider = "firebase-phone"

\* C28: when an ensureSupabaseUser call returns, the account it targeted has
\* user_metadata.firebase_uid equal to the call's resolved subject and
\* provider 'firebase-phone', whether the account was created or found, and
\* whatever subject it was bound to before.
C28_ProvenanceBinding == [][\A r \in Runs : C28_ReturnStep(r)]_vars

\* An account created for the subject u1 was then found by phone for the
\* subject u2: its firebase_uid is now u2.
C28_ReboundFromU1ToU2 ==
    \E r \in Runs : \E q \in Runs \ {r} :
        /\ users0 = <<>>
        /\ result[r].kind = "return" /\ result[q].kind = "return"
        /\ calls[r][Len(calls[r])].op = "createUser"
        /\ calls[q][Len(calls[q])].op = "updateUserById"
        /\ result[q].user.id = result[r].user.id
        /\ result[r].user.user_metadata.firebase_uid = u1
        /\ ResolvedSubject(claims[q]) = u2
        /\ AccountById(users, result[r].user.id).user_metadata.firebase_uid = u2

-----------------------------------------------------------------------------
(* C29: done only after server approval.                                   *)

\* The server's answer is JSON with ok true.
C29_Approved(res) == "body" \in DOMAIN res /\ "ok" \in DOMAIN res.body /\ res.body.ok = TRUE

\* The handleVerify call c is one more in flight after this step than before.
C29_Arrives(c) == CopiesIn(c, verifies') > CopiesIn(c, verifies)

\* The handleVerify call c is one less in flight after this step than before.
C29_Leaves(c) == CopiesIn(c, verifies') < CopiesIn(c, verifies)

\* A call reaches each await from the one before it: confirm is called on the
\* stored confirmation, getIdToken after confirm resolved, the POST is sent
\* after getIdToken resolved, and res.json() is read after the POST was
\* answered.
C29_InOrder(c) ==
    LET at(stage) == [at |-> stage, confirmation |-> c.confirmation, code |-> c.code]
    IN  CASE c.at = "confirm" -> confirmationRef = <<c.confirmation>> /\ Len(c.code) = 6
          [] c.at = "getIdToken" -> C29_Leaves(at("confirm"))
          [] c.at = "fetch" -> C29_Leaves(at("getIdToken"))
          [] c.at = "json" -> C29_Leaves(at("fetch"))

C29_Step ==
    /\ \A c \in BagToSet(verifies') : C29_Arrives(c) => C29_InOrder(c)
    /\ (step' = "done" /\ step /= "done") =>
            \E c \in BagToSet(verifies) :
                c.at = "json" /\ C29_Approved(c.res) /\ C29_Leaves(c)
    /\ \A c \in BagToSet(verifies) :
            (C29_Leaves(c) /\ ~(\E d \in BagToSet(verifies') : C29_Arrives(d))) =>
                IF c.at = "json" /\ C29_Approved(c.res)
                THEN step' = "done"
                ELSE step' = step /\ error' /= ""
    /\ (confirmationRef = <<>> /\ Len(otpValue') = 6) =>
            /\ verifies' = verifies
            /\ step' = step
            /\ otpValue' /= otpValue => error' /= ""

\* C29: step becomes 'done' only in the step in which a handleVerify call
\* reads a server answer with ok true, and that call went through confirm on
\* the stored confirmation, getIdToken and the POST in this order; a call
\* that ends in any other way (a rejected confirm, getIdToken or fetch, an
\* answer that is not ok or not JSON) leaves step as it is and sets a
\* non-empty error; and without a confirmation in memory no call gets as far
\* as the POST.
C29_DoneOnlyAfterApproval ==
    /\ [](\A c \in BagToSet(verifies) : confirmationRef /= <<>>)
    /\ [][C29_Step]_vars

\* The server approved: step is 'done', with the confirmation of the send to
\* +447400123456 in memory, no error, and nothing in flight.
C29_DoneAfterApproval ==
    /\ step = "done"
    /\ error = ""
    /\ verifies = EmptyBag /\ sends = EmptyBag
    /\ confirmationRef = <<"+447400123456">>

\* The server's answer was no JSON: step stays 'otp' and the error is set.
C29_NotJsonLeavesOtp ==
    /\ step = "otp" /\ error = "Server rejected (502)" /\ verifies = EmptyBag /\ ~sending

-----------------------------------------------------------------------------
(* C30: step monotonicity under interleaving.                              *)

StepOrder(s) == CASE s = "phone" -> 0 [] s = "otp" -> 1 [] s = "done" -> 2

\* C30: step only moves forward through phone, otp, done, and once it is
\* 'done' it stays 'done', whichever handleSend or handleVerify call ends in
\* a step.
C30_StepMonotonicity == [][StepOrder(step') >= StepOrder(step)]_vars

\* Step is 'done' while a resend is still in flight.
C30_DoneWithResendInFlight == step = "done" /\ sends /= EmptyBag

====
